---- MODULE Spec2Model ----
(***************************************************************************)
(* A model of image_metadata_recorder: the key normalizer and field        *)
(* promotion of processors/standard_processor.py, and the key-path and     *)
(* structure-template generators of analyzer.py and                        *)
(* reporters/keypath_util.py; the pipeline of workflow/workflow.py         *)
(* (run_for_file) and the batch loop of cli.py (main); the leaf coercion   *)
(* and the XML parsing of extractors/tiff_extractor.py (postprocessor,     *)
(* _parse_generic_xml, _parse_perkinelmer_xml, extract) and the extractor  *)
(* registry of extractors/__init__.py.                                     *)
(*                                                                         *)
(* Spec calls one function on one argument, BatchSpec runs cli.main or     *)
(* run_for_file over a directory, RegistrySpec looks extractors up in an   *)
(* installation with plugins.                                              *)
(*                                                                         *)
(* Python strings are sequences of one-character strings.  Every Python   *)
(* value is a record [t, s, n, c]: its type t, its characters s (a str, a  *)
(* dict entry's key), its numbers n (an int, a float, a bool, the object a *)
(* reference points to) and its children c (the entries of a dict in       *)
(* insertion order, the elements of a list, the value of a dict entry).    *)
(* Python objects that can be mutated (dict, list) live in a heap, a       *)
(* sequence of objects addressed by their index; inside the heap a         *)
(* container holds scalars and references to objects.                      *)
(***************************************************************************)
EXTENDS Integers, Sequences, FiniteSets, TLC

VARIABLES
    input,      \* the argument of the call: a key, a tree, paths, a leaf, a text, a file
    heap,       \* the Python heap: the dict and list objects
    raw,        \* reference to the root of the argument tree in the heap
    op,         \* the function that was called ("none" before the call)
    out,        \* what the call returned
    keypath_file,   \* the text written to <stem>_key_paths.txt
    template_file,  \* the text written to <stem>_metadata_structure_template.txt
    caller,         \* who runs the pipeline: "main" (cli.main) or "run_for_file"
    directory,      \* the names of the files at the input path
    files_to_process,   \* cli.main: the list find_files returned
    idx,            \* cli.main: the position of image_file_path in files_to_process
    pc,             \* the statement main / run_for_file is at
    extractor_func, \* run_for_file: the extractor get_extractor returned
    wf_raw_metadata,    \* run_for_file, raw_metadata: "unset", "None" or a tree
    wf_processed_data,  \* run_for_file, processed_data: "unset", "None" or "tree"
    artifacts,      \* the files in the output directory
    events,         \* the stages run so far, in order, with their outcome
    faults,         \* how many operations raised so far
    success_count,  \* cli.main
    failure_count,  \* cli.main
    exit_status,    \* the exit status of the process (-1 while it runs)
    discovered_plugins, \* the entry points of the group image_metadata_recorder.extractors
    registry        \* extractors/__init__.py, _EXTRACTOR_REGISTRY: loaded or not, the dict

call_vars == <<input, heap, raw, op, out, keypath_file, template_file>>

batch_vars ==
    <<caller, directory, files_to_process, idx, pc, extractor_func, wf_raw_metadata,
      wf_processed_data, artifacts, events, faults, success_count, failure_count,
      exit_status>>

registry_vars == <<discovered_plugins, registry>>

vars == <<call_vars, batch_vars, registry_vars>>

(***************************************************************************)
(* Bounds of the model.                                                    *)
(***************************************************************************)
MaxKeyLen == 4
MaxStrLen == 3
MaxTags == 2
MaxPathLen == 5
MaxFiles == 2
MaxFaults == 2
MaxLeafLen == 3

(***************************************************************************)
(* Characters.                                                             *)
(***************************************************************************)
LowerLetters ==
    <<"a","b","c","d","e","f","g","h","i","j","k","l","m",
      "n","o","p","q","r","s","t","u","v","w","x","y","z">>

UpperLetters ==
    <<"A","B","C","D","E","F","G","H","I","J","K","L","M",
      "N","O","P","Q","R","S","T","U","V","W","X","Y","Z">>

Digits == <<"0","1","2","3","4","5","6","7","8","9">>

\* The characters of the model in code-point order (str comparison order).
CharOrder ==
    <<"\t", "\n", " ", "+", "-", ".">> \o Digits \o UpperLetters
        \o <<"[", "]", "_">> \o LowerLetters

IndexIn(seq, c) == CHOOSE i \in 1..Len(seq) : seq[i] = c

IsIn(seq, c) == \E i \in 1..Len(seq) : seq[i] = c

\* str.isdigit() of one character
IsDigit(c) == IsIn(Digits, c)

\* str.isspace() of one character: what str.split() with no argument splits on
IsSpace(c) == c \in {" ", "\t", "\n"}

\* str.lower() of one character
lower(c) == IF IsIn(UpperLetters, c) THEN LowerLetters[IndexIn(UpperLetters, c)] ELSE c

\* str.upper() of one character
upper(c) == IF IsIn(LowerLetters, c) THEN UpperLetters[IndexIn(LowerLetters, c)] ELSE c

\* str.lower(), str.upper()
LowerStr(s) == [i \in 1..Len(s) |-> lower(s[i])]
UpperStr(s) == [i \in 1..Len(s) |-> upper(s[i])]

\* s[1:]
Rest(s) == SubSeq(s, 2, Len(s))

\* str.replace(old, new) for one-character old and new
replace(s, old, new) == [i \in 1..Len(s) |-> IF s[i] = old THEN new ELSE s[i]]

\* str.split(): the maximal runs of non-whitespace characters, in order
RECURSIVE SplitFrom(_, _, _)
SplitFrom(s, i, cur) ==
    IF i > Len(s)
    THEN IF cur = <<>> THEN <<>> ELSE <<cur>>
    ELSE IF IsSpace(s[i])
         THEN (IF cur = <<>> THEN <<>> ELSE <<cur>>) \o SplitFrom(s, i + 1, <<>>)
         ELSE SplitFrom(s, i + 1, Append(cur, s[i]))

split(s) == SplitFrom(s, 1, <<>>)

\* First character upper-cased, every other character kept as it is.
UpperFirst(word) ==
    IF word = <<>> THEN <<>> ELSE <<upper(word[1])>> \o Rest(word)

\* str.capitalize(): first character upper-cased, every other lower-cased
capitalize(word) ==
    IF word = <<>>
    THEN <<>>
    ELSE <<upper(word[1])>> \o [i \in 1..(Len(word) - 1) |-> lower(word[i + 1])]

\* "".join(words)
RECURSIVE Join(_)
Join(words) == IF words = <<>> THEN <<>> ELSE Head(words) \o Join(Tail(words))

(***************************************************************************)
(* String literals of the source and of the scenarios.                     *)
(***************************************************************************)
K_pages == <<"p","a","g","e","s">>
K_tags == <<"t","a","g","s">>
K_imageWidth == <<"i","m","a","g","e","W","i","d","t","h">>
K_imageLength == <<"i","m","a","g","e","L","e","n","g","t","h">>
K_bitsPerSample == <<"b","i","t","s","P","e","r","S","a","m","p","l","e">>
K_dateTime == <<"d","a","t","e","T","i","m","e">>
K_software == <<"s","o","f","t","w","a","r","e">>
K_compression == <<"c","o","m","p","r","e","s","s","i","o","n">>
K_photometricInterpretation ==
    <<"p","h","o","t","o","m","e","t","r","i","c",
      "I","n","t","e","r","p","r","e","t","a","t","i","o","n">>
K_xResolution == <<"x","R","e","s","o","l","u","t","i","o","n">>
K_yResolution == <<"y","R","e","s","o","l","u","t","i","o","n">>
K_resolutionUnit == <<"r","e","s","o","l","u","t","i","o","n","U","n","i","t">>
K_sampleFormat == <<"s","a","m","p","l","e","F","o","r","m","a","t">>

K_Image_Width == <<"I","m","a","g","e"," ","W","i","d","t","h">>
K_Image_Width_kebab == <<"I","m","a","g","e","-","W","i","d","t","h">>
K_image_width == <<"i","m","a","g","e","_","w","i","d","t","h">>
K_BITS_PER_SAMPLE == <<"B","I","T","S","_","P","E","R","_","S","A","M","P","L","E">>
K_bitsPERSAMPLE == <<"b","i","t","s","P","E","R","S","A","M","P","L","E">>
K_bITSPerSample == <<"b","I","T","S","P","e","r","S","a","m","p","l","e">>
K_Pages == <<"P","a","g","e","s">>
K_Tags == <<"T","a","g","s">>
K_fooBar == <<"f","o","o","B","a","r">>
K_other == <<"o","t","h","e","r">>
K_inner == <<"i","n","n","e","r">>
K_a == <<"a">>
K_b == <<"b">>
K_c == <<"c">>
K_a_dot_b == <<"a", ".", "b">>
K_0 == <<"0">>
K_empty == <<>>

S_100 == <<"1","0","0">>
S_42 == <<"4","2">>
S_neg3_14 == <<"-","3",".","1","4">>
S_3dot == <<"3",".">>
S_abc == <<"a","b","c">>
S_true == <<"t","r","u","e">>
S_false == <<"f","a","l","s","e">>
S_plus5 == <<"+","5">>
S_42nl == <<"4","2","\n">>
S_x == <<"x">>
S_old == <<"o","l","d">>

(***************************************************************************)
(* standard_processor._to_camel_case                                       *)
(***************************************************************************)
\* A plausible slip: a single word is lower-cased as a whole.
ToCamelCaseLowerSingle(text) ==
    LET parts == split(replace(replace(text, "-", " "), "_", " "))
    IN  IF parts = <<>>
        THEN <<>>
        ELSE IF Len(parts) = 1
             THEN [i \in 1..Len(parts[1]) |-> lower(parts[1][i])]
             ELSE <<lower(parts[1][1])>> \o Rest(parts[1])
                    \o Join([i \in 1..(Len(parts) - 1) |-> capitalize(parts[i + 1])])

_to_camel_case(text) ==
    IF text = <<>>
    THEN <<>>
    ELSE LET s == replace(replace(text, "-", " "), "_", " ")
             parts == split(s)
         IN  IF parts = <<>>
             THEN <<>>
             ELSE IF Len(parts) = 1
                  THEN <<lower(parts[1][1])>> \o Rest(parts[1])
                  ELSE LET first_word == <<lower(parts[1][1])>> \o Rest(parts[1])
                           following_words ==
                               Join([i \in 1..(Len(parts) - 1) |-> capitalize(parts[i + 1])])
                       IN  first_word \o following_words

(***************************************************************************)
(* Python values.                                                          *)
(***************************************************************************)
Val(type, chars, nums, children) ==
    [t |-> type, s |-> chars, n |-> nums, c |-> children]

StrVal(s) == Val("str", s, <<>>, <<>>)
IntVal(i) == Val("int", <<>>, <<i>>, <<>>)
\* A float: (-1)^neg * num / 10^scale, num without trailing fraction zeros.
FloatVal(neg, num, scale) == Val("float", <<>>, <<neg, num, scale>>, <<>>)
\* A bool: 1 for True, 0 for False.
BoolVal(b) == Val("bool", <<>>, <<b>>, <<>>)
NullVal == Val("null", <<>>, <<>>, <<>>)
DictVal(entries) == Val("dict", <<>>, <<>>, entries)
ListVal(elems) == Val("list", <<>>, <<>>, elems)
\* _EXTRACTOR_REGISTRY = None
NotLoaded == [loaded |-> FALSE, extractors |-> <<>>]
\* A reference to the object id of the heap.
Ref(id) == Val("ref", <<>>, <<id>>, <<>>)
\* An entry of a dict.
Entry(key, val) == Val("entry", key, <<>>, <<val>>)

KeyOf(entry) == entry.s
ValueOf(entry) == entry.c[1]
IdOf(ref) == ref.n[1]

(***************************************************************************)
(* The numeric coercion of normalize_recursively (lines 52-63).            *)
(***************************************************************************)
AllDigits(s) == \A i \in 1..Len(s) : IsDigit(s[i])

\* What '$' leaves to match: the string without one final newline.
BeforeDollar(s) ==
    IF s # <<>> /\ s[Len(s)] = "\n" THEN SubSeq(s, 1, Len(s) - 1) ELSE s

\* The text after an optional leading minus.
Unsigned(s) == IF s # <<>> /\ s[1] = "-" THEN Rest(s) ELSE s

\* The positions of '.' in s.
DotsOf(s) == {i \in 1..Len(s) : s[i] = "."}

\* re.match(r"^-?\d+$", data)
MatchesInt(data) ==
    LET body == Unsigned(BeforeDollar(data))
    IN  body # <<>> /\ AllDigits(body)

\* re.match(r"^-?\d*\.\d+$", data)
MatchesFloatFraction(data) ==
    LET body == Unsigned(BeforeDollar(data))
    IN  /\ Cardinality(DotsOf(body)) = 1
        /\ LET d == CHOOSE i \in DotsOf(body) : TRUE
           IN  /\ AllDigits(SubSeq(body, 1, d - 1))
               /\ d < Len(body)
               /\ AllDigits(SubSeq(body, d + 1, Len(body)))

\* re.match(r"^-?\d+\.\d*$", data)
MatchesFloatInteger(data) ==
    LET body == Unsigned(BeforeDollar(data))
    IN  /\ Cardinality(DotsOf(body)) = 1
        /\ LET d == CHOOSE i \in DotsOf(body) : TRUE
           IN  /\ d > 1
               /\ AllDigits(SubSeq(body, 1, d - 1))
               /\ AllDigits(SubSeq(body, d + 1, Len(body)))

\* The number a string of digits denotes.
RECURSIVE DigitsValue(_)
DigitsValue(s) ==
    IF s = <<>>
    THEN 0
    ELSE 10 * DigitsValue(SubSeq(s, 1, Len(s) - 1)) + (IndexIn(Digits, s[Len(s)]) - 1)

\* s without its trailing '0's
RECURSIVE StripZeros(_)
StripZeros(s) ==
    IF s # <<>> /\ s[Len(s)] = "0" THEN StripZeros(SubSeq(s, 1, Len(s) - 1)) ELSE s

\* int(data), for data that matched: surrounding whitespace is ignored
IntOf(data) ==
    LET text == BeforeDollar(data)
        i == DigitsValue(Unsigned(text))
    IN  IntVal(IF text[1] = "-" THEN 0 - i ELSE i)

\* float(data), for data that matched
FloatOf(data) ==
    LET text == BeforeDollar(data)
        body == Unsigned(text)
        d == CHOOSE i \in DotsOf(body) : TRUE
        frac == StripZeros(SubSeq(body, d + 1, Len(body)))
    IN  FloatVal(IF text[1] = "-" THEN 1 ELSE 0,
                 DigitsValue(SubSeq(body, 1, d - 1) \o frac), Len(frac))

\* The str branch of normalize_recursively (lines 52-63).  int() and float()
\* accept every string the patterns match, so no except branch is taken.
CoerceString(data) ==
    IF MatchesInt(data.s)
    THEN IntOf(data.s)
    ELSE IF MatchesFloatFraction(data.s) \/ MatchesFloatInteger(data.s)
         THEN FloatOf(data.s)
         ELSE data

(***************************************************************************)
(* Python dict operations on the sequence of a dict's entries.             *)
(***************************************************************************)
\* key in d
HasKey(entries, key) == \E i \in 1..Len(entries) : KeyOf(entries[i]) = key

\* d[key]
GetItem(entries, key) ==
    ValueOf(entries[CHOOSE i \in 1..Len(entries) : KeyOf(entries[i]) = key])

\* d[key] = val: an existing key keeps its place, a new key goes last
SetItem(entries, key, val) ==
    IF HasKey(entries, key)
    THEN [i \in 1..Len(entries) |->
            IF KeyOf(entries[i]) = key THEN Entry(key, val) ELSE entries[i]]
    ELSE Append(entries, Entry(key, val))

\* d.pop(key): the entries left
PopItem(entries, key) == SelectSeq(entries, LAMBDA e : KeyOf(e) # key)

(***************************************************************************)
(* The heap.                                                               *)
(***************************************************************************)
IsDictRef(h, x) == x.t = "ref" /\ h[IdOf(x)].t = "dict"
IsListRef(h, x) == x.t = "ref" /\ h[IdOf(x)].t = "list"

\* The entries of the dict, or the elements of the list, x refers to.
ItemsOf(h, x) == h[IdOf(x)].c

\* The tree a heap value denotes.
RECURSIVE Deref(_, _)
Deref(h, x) ==
    IF IsDictRef(h, x)
    THEN DictVal([i \in 1..Len(ItemsOf(h, x)) |->
                    Entry(KeyOf(ItemsOf(h, x)[i]),
                          Deref(h, ValueOf(ItemsOf(h, x)[i])))])
    ELSE IF IsListRef(h, x)
         THEN ListVal([i \in 1..Len(ItemsOf(h, x)) |-> Deref(h, ItemsOf(h, x)[i])])
         ELSE x

\* The objects reachable from a heap value.
RECURSIVE Reach(_, _)
Reach(h, x) ==
    IF IsDictRef(h, x)
    THEN {IdOf(x)} \cup
           UNION {Reach(h, ValueOf(ItemsOf(h, x)[i])) : i \in 1..Len(ItemsOf(h, x))}
    ELSE IF IsListRef(h, x)
         THEN {IdOf(x)} \cup
                UNION {Reach(h, ItemsOf(h, x)[i]) : i \in 1..Len(ItemsOf(h, x))}
         ELSE {}

\* The heap and the root after a tree was built in it (what the extractor
\* hands over: fresh objects, none shared).
RECURSIVE Build(_, _), BuildAll(_, _)
Build(h, tree) ==
    IF tree.t = "dict"
    THEN LET kids == BuildAll(h, [i \in 1..Len(tree.c) |-> ValueOf(tree.c[i])])
             obj == DictVal([i \in 1..Len(tree.c) |->
                               Entry(KeyOf(tree.c[i]), kids.rs[i])])
         IN  [h |-> Append(kids.h, obj), r |-> Ref(Len(kids.h) + 1)]
    ELSE IF tree.t = "list"
         THEN LET kids == BuildAll(h, tree.c)
              IN  [h |-> Append(kids.h, ListVal(kids.rs)), r |-> Ref(Len(kids.h) + 1)]
         ELSE [h |-> h, r |-> tree]
BuildAll(h, trees) ==
    IF trees = <<>>
    THEN [h |-> h, rs |-> <<>>]
    ELSE LET first == Build(h, Head(trees))
             rest == BuildAll(first.h, Tail(trees))
         IN  [h |-> rest.h, rs |-> <<first.r>> \o rest.rs]

(***************************************************************************)
(* standard_processor.normalize_recursively                                *)
(***************************************************************************)
RECURSIVE normalize_recursively(_, _)

\* [normalize_recursively(item) for item in data]: the heap afterwards and
\* the results, in order.
RECURSIVE NormalizeElems(_, _)
NormalizeElems(h, elems) ==
    IF elems = <<>>
    THEN [h |-> h, rs |-> <<>>]
    ELSE LET first == normalize_recursively(h, Head(elems))
             rest == NormalizeElems(first.h, Tail(elems))
         IN  [h |-> rest.h, rs |-> <<first.r>> \o rest.rs]

\* A plausible slip: the list is normalized in place and returned itself.
NormalizeListInPlace(h, data) ==
    LET res == NormalizeElems(h, ItemsOf(h, data))
    IN  [h |-> [res.h EXCEPT ![IdOf(data)] = ListVal(res.rs)], r |-> data]

\* The list branch (lines 50-51): a new list of the normalized elements.
NormalizeList(h, data) ==
    LET res == NormalizeElems(h, ItemsOf(h, data))
    IN  [h |-> Append(res.h, ListVal(res.rs)), r |-> Ref(Len(res.h) + 1)]

\* A plausible slip: a key that is in new_dict already is not written again.
RECURSIVE NormalizeItemsFirstWins(_, _, _, _)
NormalizeItemsFirstWins(h, new_id, items, i) ==
    IF i > Len(items)
    THEN h
    ELSE LET new_key == _to_camel_case(KeyOf(items[i]))
             res == normalize_recursively(h, ValueOf(items[i]))
             h2 == IF HasKey(res.h[new_id].c, new_key)
                   THEN res.h
                   ELSE [res.h EXCEPT ![new_id].c = SetItem(@, new_key, res.r)]
         IN  NormalizeItemsFirstWins(h2, new_id, items, i + 1)

\* The loop of the dict branch (lines 44-48) from entry i on: new_dict is the
\* object new_id of the heap.
RECURSIVE NormalizeItems(_, _, _, _)
NormalizeItems(h, new_id, items, i) ==
    IF i > Len(items)
    THEN h
    ELSE LET new_key == _to_camel_case(KeyOf(items[i]))
             res == normalize_recursively(h, ValueOf(items[i]))
             h2 == [res.h EXCEPT ![new_id].c = SetItem(@, new_key, res.r)]
         IN  NormalizeItems(h2, new_id, items, i + 1)

\* The dict branch (lines 42-49).
NormalizeDict(h, data) ==
    LET h1 == Append(h, DictVal(<<>>))
        new_id == Len(h1)
    IN  [h |-> NormalizeItems(h1, new_id, ItemsOf(h, data), 1), r |-> Ref(new_id)]

normalize_recursively(h, data) ==
    IF IsDictRef(h, data)
    THEN NormalizeDict(h, data)
    ELSE IF IsListRef(h, data)
         THEN NormalizeList(h, data)
         ELSE IF data.t = "str"
              THEN [h |-> h, r |-> CoerceString(data)]
              ELSE [h |-> h, r |-> data]

(***************************************************************************)
(* standard_processor.process                                              *)
(***************************************************************************)
keys_to_promote ==
    << K_imageWidth, K_imageLength, K_bitsPerSample, K_dateTime, K_software,
       K_compression, K_photometricInterpretation, K_xResolution,
       K_yResolution, K_resolutionUnit, K_sampleFormat >>

\* A plausible slip: the value is copied to the page and left in tags.
PromoteKeyNoPop(h, page, key) ==
    LET tags == GetItem(h[page].c, K_tags)
    IN  IF HasKey(ItemsOf(h, tags), key)
        THEN [h EXCEPT ![page].c = SetItem(@, key, GetItem(ItemsOf(h, tags), key))]
        ELSE h

\* Lines 105-106: page[key] = page["tags"].pop(key), for the dict object page.
PromoteKey(h, page, key) ==
    LET tags == GetItem(h[page].c, K_tags)
    IN  IF HasKey(ItemsOf(h, tags), key)
        THEN LET val == GetItem(ItemsOf(h, tags), key)
                 h1 == [h EXCEPT ![IdOf(tags)].c = PopItem(@, key)]
             IN  [h1 EXCEPT ![page].c = SetItem(@, key, val)]
        ELSE h

\* The loop of lines 104-107 from the i-th key on.
RECURSIVE PromoteKeys(_, _, _)
PromoteKeys(h, page, i) ==
    IF i > Len(keys_to_promote)
    THEN h
    ELSE PromoteKeys(PromoteKey(h, page, keys_to_promote[i]), page, i + 1)

\* A plausible slip: an emptied tags is left in the page.
KeepEmptyTags(h, page) == h

\* Lines 109-110: if page.get("tags") == {}: page.pop("tags")
RemoveEmptyTags(h, page) ==
    IF HasKey(h[page].c, K_tags)
          /\ Deref(h, GetItem(h[page].c, K_tags)) = DictVal(<<>>)
    THEN [h EXCEPT ![page].c = PopItem(@, K_tags)]
    ELSE h

\* The guard of lines 80-88: the page is skipped.
SkipsPage(h, page) ==
    \/ ~IsDictRef(h, page)
    \/ ~HasKey(ItemsOf(h, page), K_tags)
    \/ ~IsDictRef(h, GetItem(ItemsOf(h, page), K_tags))

\* A plausible slip: tags is looked at only after a key was moved out of it.
PromotePageRemovesOnlyEmptied(h, page) ==
    IF SkipsPage(h, page)
    THEN h
    ELSE LET promoted == PromoteKeys(h, IdOf(page), 1)
         IN  IF promoted = h THEN h ELSE RemoveEmptyTags(promoted, IdOf(page))

\* The body of the loop over the pages (lines 80-113).
PromotePage(h, page) ==
    IF SkipsPage(h, page)
    THEN h
    ELSE RemoveEmptyTags(PromoteKeys(h, IdOf(page), 1), IdOf(page))

\* for page in processed_data["pages"] (line 79), from the i-th page on
RECURSIVE PromotePages(_, _, _)
PromotePages(h, pages, i) ==
    IF i > Len(ItemsOf(h, pages))
    THEN h
    ELSE PromotePages(PromotePage(h, ItemsOf(h, pages)[i]), pages, i + 1)

\* Line 78: "pages" in processed_data and isinstance(..., list)
HasPagesList(h, processed_data) ==
    /\ HasKey(ItemsOf(h, processed_data), K_pages)
    /\ IsListRef(h, GetItem(ItemsOf(h, processed_data), K_pages))

\* A plausible slip: a tags dict of the root is promoted like a page's.
ProcessAlsoRoot(h, raw_data) ==
    LET n == normalize_recursively(h, raw_data)
        processed_data == n.r
        h1 == IF HasPagesList(n.h, processed_data)
              THEN PromotePages(n.h, GetItem(ItemsOf(n.h, processed_data), K_pages), 1)
              ELSE n.h
    IN  [h |-> PromotePage(h1, processed_data), r |-> processed_data]

\* A plausible slip: the pages are promoted before the keys are normalized.
ProcessPromotesFirst(h, raw_data) ==
    normalize_recursively(
        IF HasPagesList(h, raw_data)
        THEN PromotePages(h, GetItem(ItemsOf(h, raw_data), K_pages), 1)
        ELSE h,
        raw_data)

\* process(raw_data), for a raw_data that is a dict: the heap afterwards and
\* the value returned.
process(h, raw_data) ==
    LET n == normalize_recursively(h, raw_data)
        processed_data == n.r
    IN  IF HasPagesList(n.h, processed_data)
        THEN [h |-> PromotePages(n.h, GetItem(ItemsOf(n.h, processed_data), K_pages), 1),
              r |-> processed_data]
        ELSE n

(***************************************************************************)
(* Paths: str(i), f"{parent}.{key}", sorted.                               *)
(***************************************************************************)
\* str(i) for an index i >= 0
RECURSIVE IntToStr(_)
IntToStr(i) ==
    IF i < 10
    THEN <<Digits[i + 1]>>
    ELSE IntToStr(i \div 10) \o <<Digits[(i % 10) + 1]>>

\* ord(c)
Ord(c) == IndexIn(CharOrder, c)

\* a < b for two str
StrLess(a, b) ==
    \E i \in 1..(Len(b)) :
        /\ \A j \in 1..(i - 1) : j <= Len(a) /\ a[j] = b[j]
        /\ (i > Len(a) \/ Ord(a[i]) < Ord(b[i]))

\* sorted(paths) for a set of str
RECURSIVE sorted(_)
sorted(paths) ==
    IF paths = {}
    THEN <<>>
    ELSE LET least == CHOOSE x \in paths : \A y \in paths : x = y \/ StrLess(x, y)
         IN  <<least>> \o sorted(paths \ {least})

\* The text a file holds after f.write(p + "\n") for each p of lines.
RECURSIVE Written(_)
Written(lines) ==
    IF lines = <<>> THEN <<>> ELSE Head(lines) \o <<"\n">> \o Written(Tail(lines))

(***************************************************************************)
(* analyzer.get_key_paths                                                  *)
(***************************************************************************)
\* The loops of get_key_paths from the i-th entry (element) on.
RECURSIVE get_key_paths(_, _), GetKeyPathsFrom(_, _, _)
GetKeyPathsFrom(data, parent_path, i) ==
    IF i > Len(data.c)
    THEN <<>>
    ELSE IF data.t = "dict"
         THEN LET key == KeyOf(data.c[i])
                  path == IF parent_path # <<>> THEN parent_path \o <<".">> \o key ELSE key
              IN  <<path>> \o get_key_paths(ValueOf(data.c[i]), path)
                    \o GetKeyPathsFrom(data, parent_path, i + 1)
         ELSE LET path == parent_path \o <<".">> \o IntToStr(i - 1)
              IN  get_key_paths(data.c[i], path)
                    \o GetKeyPathsFrom(data, parent_path, i + 1)

\* get_key_paths(data, parent_path): the list returned
get_key_paths(data, parent_path) ==
    IF data.t \in {"dict", "list"} THEN GetKeyPathsFrom(data, parent_path, 1) ELSE <<>>

(***************************************************************************)
(* keypath_util.extract_key_paths, template_key_paths,                     *)
(* write_key_paths_to_file                                                 *)
(***************************************************************************)
\* A plausible slip: as in get_key_paths, an element's own path is not added.
RECURSIVE ExtractWithoutIndexPaths(_, _)
ExtractWithoutIndexPaths(data, parent) ==
    IF data.t = "dict"
    THEN UNION {LET k == KeyOf(data.c[i])
                    path == IF parent # <<>> THEN parent \o <<".">> \o k ELSE k
                IN  {path} \cup ExtractWithoutIndexPaths(ValueOf(data.c[i]), path) :
                  i \in 1..Len(data.c)}
    ELSE IF data.t = "list"
         THEN UNION {LET path == IF parent # <<>>
                                 THEN parent \o <<".">> \o IntToStr(i - 1)
                                 ELSE IntToStr(i - 1)
                     IN  ExtractWithoutIndexPaths(data.c[i], path) :
                       i \in 1..Len(data.c)}
         ELSE {}

\* extract_key_paths(data, parent): the set returned
RECURSIVE extract_key_paths(_, _)
extract_key_paths(data, parent) ==
    IF data.t = "dict"
    THEN UNION {LET k == KeyOf(data.c[i])
                    path == IF parent # <<>> THEN parent \o <<".">> \o k ELSE k
                IN  {path} \cup extract_key_paths(ValueOf(data.c[i]), path) :
                  i \in 1..Len(data.c)}
    ELSE IF data.t = "list"
         THEN UNION {LET path == IF parent # <<>>
                                 THEN parent \o <<".">> \o IntToStr(i - 1)
                                 ELSE IntToStr(i - 1)
                     IN  {path} \cup extract_key_paths(data.c[i], path) :
                       i \in 1..Len(data.c)}
         ELSE {}

\* The first position from i on that holds no digit.
RECURSIVE EndOfDigits(_, _)
EndOfDigits(p, i) ==
    IF i <= Len(p) /\ IsDigit(p[i]) THEN EndOfDigits(p, i + 1) ELSE i

\* A plausible slip: only the first index of a path is replaced (count=1).
RECURSIVE SubFirstIndexFrom(_, _)
SubFirstIndexFrom(p, i) ==
    IF i > Len(p)
    THEN <<>>
    ELSE IF p[i] = "." /\ i < Len(p) /\ IsDigit(p[i + 1])
         THEN <<".", "[", "]">> \o SubSeq(p, EndOfDigits(p, i + 1), Len(p))
         ELSE <<p[i]>> \o SubFirstIndexFrom(p, i + 1)

\* re.sub(r"\.(\d+)", r".[]", p), from position i on: every '.' that digits
\* follow is replaced, with all the digits that follow it, by ".[]".
RECURSIVE SubIndexFrom(_, _)
SubIndexFrom(p, i) ==
    IF i > Len(p)
    THEN <<>>
    ELSE IF p[i] = "." /\ i < Len(p) /\ IsDigit(p[i + 1])
         THEN <<".", "[", "]">> \o SubIndexFrom(p, EndOfDigits(p, i + 1))
         ELSE <<p[i]>> \o SubIndexFrom(p, i + 1)

\* template_key_paths(paths): the sorted list returned
template_key_paths(paths) == sorted({SubIndexFrom(p, 1) : p \in paths})

\* write_key_paths_to_file(data, keypath_file, template_file): the text of
\* the two files
write_key_paths_to_file(data) ==
    LET key_paths == sorted(extract_key_paths(data, <<>>))
        structure_paths == template_key_paths({key_paths[i] : i \in 1..Len(key_paths)})
    IN  [keypath_file |-> Written(key_paths), template_file |-> Written(structure_paths)]

(***************************************************************************)
(* analyzer.generate_structure_template                                    *)
(***************************************************************************)
\* path.split('.') from position i on, part being the segment read so far:
\* every '.' ends a segment, empty segments are kept.
RECURSIVE SplitOnFrom(_, _, _, _)
SplitOnFrom(s, sep, i, part) ==
    IF i > Len(s)
    THEN <<part>>
    ELSE IF s[i] = sep
         THEN <<part>> \o SplitOnFrom(s, sep, i + 1, <<>>)
         ELSE SplitOnFrom(s, sep, i + 1, Append(part, s[i]))

\* s.split(sep)
split_on(s, sep) == SplitOnFrom(s, sep, 1, <<>>)

\* sep.join(parts)
RECURSIVE join_with(_, _)
join_with(sep, parts) ==
    IF parts = <<>>
    THEN <<>>
    ELSE IF Len(parts) = 1
         THEN parts[1]
         ELSE parts[1] \o <<sep>> \o join_with(sep, Tail(parts))

\* part.isdigit()
isdigit(part) == part # <<>> /\ \A i \in 1..Len(part) : IsDigit(part[i])

\* The template of one path: the body of the loop.
TemplateOfPath(path) ==
    LET parts == split_on(path, ".")
        template_parts ==
            [i \in 1..Len(parts) |-> IF ~isdigit(parts[i]) THEN parts[i] ELSE <<"[", "]">>]
    IN  join_with(".", template_parts)

\* generate_structure_template(key_paths): the sorted list returned
generate_structure_template(key_paths) ==
    sorted({TemplateOfPath(key_paths[i]) : i \in 1..Len(key_paths)})

(***************************************************************************)
(* The arguments the calls are made with.                                  *)
(***************************************************************************)
KeyAlphabet == {"a", "B", "-", "_", " ", "1"}

RECURSIVE StringsUpTo(_, _)
StringsUpTo(alphabet, n) ==
    IF n = 0
    THEN {<<>>}
    ELSE LET shorter == StringsUpTo(alphabet, n - 1)
         IN  shorter \cup {Append(s, c) : s \in shorter, c \in alphabet}

NamedKeys == {K_Image_Width, K_Image_Width_kebab, K_BITS_PER_SAMPLE, K_imageWidth}

KeyInputs == StringsUpTo(KeyAlphabet, MaxKeyLen) \cup NamedKeys

\* Scalar leaves.
ValueAlphabet == {"1", "0", "-", ".", "+", "a", "\n"}

NamedStrings ==
    {S_100, S_42, S_neg3_14, S_3dot, S_abc, S_true, S_false, S_plus5, S_42nl}

ScalarInputs ==
    {StrVal(s) : s \in StringsUpTo(ValueAlphabet, MaxStrLen) \cup NamedStrings}
        \cup {IntVal(42), IntVal(-7), FloatVal(1, 314, 2), BoolVal(1), BoolVal(0),
              NullVal}

LeafTrees ==
    ScalarInputs \cup {DictVal(<<Entry(K_a, x)>>) : x \in ScalarInputs}

\* The entry sequences of at most n entries with distinct keys.
RECURSIVE EntrySeqs(_, _)
EntrySeqs(entries, n) ==
    IF n = 0
    THEN {<<>>}
    ELSE LET shorter == EntrySeqs(entries, n - 1)
         IN  shorter \cup
               UNION {{Append(s, e) : e \in {x \in entries : ~HasKey(s, KeyOf(x))}} :
                        s \in shorter}

\* What a page's tags may hold: raw tag names, some of which normalize to
\* an allowlisted name, two of them to the same one.
TagKeys == {K_Image_Width_kebab, K_imageWidth, K_fooBar, K_software}
TagValues == {StrVal(S_100), StrVal(S_x)}
TagEntries == {Entry(k, x) : k \in TagKeys, x \in TagValues}
TagDicts == {DictVal(s) : s \in EntrySeqs(TagEntries, MaxTags)}

\* {"pages": [{"tags": tags}]}
OnePageTree(tags) ==
    DictVal(<<Entry(K_pages, ListVal(<<DictVal(<<Entry(K_tags, tags)>>)>>))>>)

TagTrees == {OnePageTree(td) : td \in TagDicts}

\* Pages of other shapes, around a small tags value.
WidthTags == DictVal(<<Entry(K_imageWidth, StrVal(S_100))>>)
SmallTags ==
    {DictVal(s) : s \in EntrySeqs(TagEntries, 1)}
        \cup {StrVal(S_x), ListVal(<<StrVal(S_100)>>)}

PageShapes(tags) ==
    { DictVal(<<Entry(K_tags, tags)>>),
      DictVal(<<Entry(K_imageWidth, StrVal(S_old)), Entry(K_tags, tags)>>),
      DictVal(<<Entry(K_Tags, tags)>>),
      DictVal(<<Entry(K_tags, tags),
                Entry(K_inner, DictVal(<<Entry(K_tags, WidthTags)>>))>>) }

OtherPages ==
    { DictVal(<<>>), StrVal(S_x), DictVal(<<Entry(K_tags, WidthTags)>>),
      ListVal(<<DictVal(<<Entry(K_tags, WidthTags)>>)>>) }

Pages == UNION {PageShapes(tags) : tags \in SmallTags} \cup OtherPages

PageLists ==
    {<<>>} \cup {<<p>> : p \in Pages} \cup {<<p, q>> : p \in Pages, q \in OtherPages}

\* The roots around a value for "pages".
RootShapes(pages) ==
    { DictVal(<<Entry(K_pages, pages)>>),
      DictVal(<<Entry(K_Pages, pages)>>),
      DictVal(<<Entry(K_tags, WidthTags), Entry(K_pages, pages)>>),
      DictVal(<<Entry(K_other, DictVal(<<Entry(K_pages, pages)>>))>>) }

PageTrees ==
    UNION {RootShapes(ListVal(l)) : l \in PageLists}
        \cup RootShapes(DictVal(<<Entry(K_tags, WidthTags)>>))
        \cup RootShapes(StrVal(S_x))

\* {"a": {"b": [1, 2]}, "c": 3}
T_abc ==
    DictVal(<<Entry(K_a, DictVal(<<Entry(K_b, ListVal(<<IntVal(1), IntVal(2)>>))>>)),
              Entry(K_c, IntVal(3))>>)

\* {"pages": [{"tags": {"imageWidth": "100", "fooBar": "x"}}]}
T_promotion ==
    OnePageTree(DictVal(<<Entry(K_imageWidth, StrVal(S_100)),
                          Entry(K_fooBar, StrVal(S_x))>>))

\* Trees with keys that are dotted, all digits or empty, next to plain ones.
OddKeys == {K_a, K_a_dot_b, K_0, K_empty}
InnerKeys == {K_a, K_b, K_0, K_empty}

OddValues ==
    {IntVal(1), ListVal(<<IntVal(1)>>), ListVal(<<DictVal(<<Entry(K_a, IntVal(1))>>)>>)}
        \cup {DictVal(<<Entry(k, IntVal(1))>>) : k \in InnerKeys}

OddEntries == {Entry(k, x) : k \in OddKeys, x \in OddValues}

KeyPathTrees == {DictVal(s) : s \in EntrySeqs(OddEntries, 2)}

\* Mappings whose keys normalize to the same key, next to one that does not.
MaxCollisions == 3

CollidingKeys == {K_Image_Width_kebab, K_image_width, K_imageWidth, K_a}
CollidingValues ==
    {StrVal(S_100), StrVal(S_x), DictVal(<<Entry(K_Image_Width_kebab, StrVal(S_42))>>)}
CollidingEntries == {Entry(k, x) : k \in CollidingKeys, x \in CollidingValues}
CollisionTrees == {DictVal(s) : s \in EntrySeqs(CollidingEntries, MaxCollisions)}

TreeInputs ==
    LeafTrees \cup TagTrees \cup PageTrees \cup KeyPathTrees \cup CollisionTrees
        \cup {T_abc, T_promotion}

\* Sets of key paths, as the sorted list of their members.
PathAlphabet == {"a", "1", "."}

PathSets ==
    {{q} : q \in StringsUpTo(PathAlphabet, MaxPathLen)}
        \cup {{q, r} : q, r \in StringsUpTo(PathAlphabet, MaxPathLen - 2)}

\* The argument of a call: a key, or a tree.
(***************************************************************************)
(* The leaf coercion of the XML parse: postprocessor of _parse_generic_xml *)
(* (tiff_extractor.py, lines 65-80) and of czi_extractor.extract (lines    *)
(* 71-83), the same code twice.                                            *)
(***************************************************************************)
\* What float(val) and int(val) raise for a text that is no number.
ValueError == Val("ValueError", <<>>, <<>>, <<>>)

\* str.strip()
RECURSIVE lstrip_space(_)
lstrip_space(s) == IF s # <<>> /\ IsSpace(s[1]) THEN lstrip_space(Rest(s)) ELSE s

RECURSIVE rstrip_space(_)
rstrip_space(s) ==
    IF s # <<>> /\ IsSpace(s[Len(s)])
    THEN rstrip_space(SubSeq(s, 1, Len(s) - 1))
    ELSE s

strip(s) == rstrip_space(lstrip_space(s))

\* str.lstrip(chars)
RECURSIVE lstrip(_, _)
lstrip(s, chars) == IF s # <<>> /\ s[1] \in chars THEN lstrip(Rest(s), chars) ELSE s

\* The digits of a numeric literal: digits with single underscores between them.
DigitGroups(s) ==
    /\ s # <<>>
    /\ IsDigit(s[1]) /\ IsDigit(s[Len(s)])
    /\ \A i \in 1..Len(s) : IsDigit(s[i]) \/ s[i] = "_"
    /\ \A i \in 1..(Len(s) - 1) : ~(s[i] = "_" /\ s[i + 1] = "_")

WithoutUnderscores(s) == SelectSeq(s, LAMBDA c : c # "_")

IsSign(c) == c \in {"+", "-"}

\* The text without its sign, and whether the sign is '-'.
WithoutSign(s) == IF s # <<>> /\ IsSign(s[1]) THEN Rest(s) ELSE s
IsMinus(s) == s # <<>> /\ s[1] = "-"

\* The first position of one of chars in s, Len(s) + 1 for none; the text
\* before a position and the text after it.
FirstOf(s, chars) ==
    LET at == {i \in 1..Len(s) : s[i] \in chars}
    IN  IF at = {} THEN Len(s) + 1 ELSE CHOOSE i \in at : \A j \in at : i <= j
UpTo(s, i) == SubSeq(s, 1, i - 1)
From(s, i) == SubSeq(s, i + 1, Len(s))

\* The value of a sign and digits.
SignedValue(text) ==
    IF IsMinus(text)
    THEN 0 - DigitsValue(WithoutUnderscores(WithoutSign(text)))
    ELSE DigitsValue(WithoutUnderscores(WithoutSign(text)))

\* int(val) of a str: surrounding whitespace, one optional sign, digits
ParseInt(val) ==
    IF DigitGroups(WithoutSign(strip(val)))
    THEN IntVal(SignedValue(strip(val)))
    ELSE ValueError

\* The float with the digits whole and frac around the point, times
\* 10^exp: (-1)^neg * num / 10^scale.
FloatOfDigits(neg, whole, frac, exp) ==
    FloatVal(IF neg THEN 1 ELSE 0,
             DigitsValue(whole \o frac),
             IF DigitsValue(whole \o frac) = 0 THEN 0 ELSE Len(frac) - exp)

\* The float of a mantissa whole.fraction and an exponent, if they are
\* well-formed.
FloatOfParts(neg, whole, fraction, has_exponent, exponent) ==
    IF /\ has_exponent => DigitGroups(WithoutSign(exponent))
       /\ whole # <<>> \/ fraction # <<>>
       /\ whole # <<>> => DigitGroups(whole)
       /\ fraction # <<>> => DigitGroups(fraction)
    THEN FloatOfDigits(neg, WithoutUnderscores(whole),
                       StripZeros(WithoutUnderscores(fraction)),
                       IF has_exponent THEN SignedValue(exponent) ELSE 0)
    ELSE ValueError

\* The mantissa is split at its first '.'.
FloatOfMantissa(neg, mantissa, has_exponent, exponent) ==
    FloatOfParts(neg, UpTo(mantissa, FirstOf(mantissa, {"."})),
                 From(mantissa, FirstOf(mantissa, {"."})), has_exponent, exponent)

\* The text after the sign is split at its first 'e' or 'E'.
FloatOfBody(neg, body) ==
    FloatOfMantissa(neg, UpTo(body, FirstOf(body, {"e", "E"})),
                    FirstOf(body, {"e", "E"}) <= Len(body),
                    From(body, FirstOf(body, {"e", "E"})))

\* float(val) of a str: surrounding whitespace, one optional sign, digits with
\* an optional '.', an optional exponent.  (inf, infinity and nan hold neither
\* '.' nor 'e', so the postprocessor never passes them to float.)  The value
\* is (-1)^neg * num / 10^scale; an exponent leaves scale below zero.
ParseFloat(val) == FloatOfBody(IsMinus(strip(val)), WithoutSign(strip(val)))

\* try: return ... except ValueError: return val
OrAsItCame(parsed, val) == IF parsed = ValueError THEN val ELSE parsed

\* A plausible slip: the exponent marker is looked for in val, not in
\* val.lower().
PostprocessorCaseSensitive(val) ==
    IF val.t # "str"
    THEN val
    ELSE IF LowerStr(val.s) \in {S_true, S_false}
    THEN BoolVal(IF LowerStr(val.s) = S_true THEN 1 ELSE 0)
    ELSE IF IsIn(val.s, ".") \/ IsIn(val.s, "e")
    THEN OrAsItCame(ParseFloat(val.s), val)
    ELSE IF isdigit(lstrip(val.s, {"-", "+"}))
    THEN OrAsItCame(ParseInt(val.s), val)
    ELSE val

\* postprocessor(_, key, val): the value of the pair returned; the key is
\* returned as it came.
postprocessor(val) ==
    IF val.t # "str"
    THEN val
    ELSE IF LowerStr(val.s) \in {S_true, S_false}
    THEN BoolVal(IF LowerStr(val.s) = S_true THEN 1 ELSE 0)
    ELSE IF IsIn(val.s, ".") \/ IsIn(LowerStr(val.s), "e")
    THEN OrAsItCame(ParseFloat(val.s), val)
    ELSE IF isdigit(lstrip(val.s, {"-", "+"}))
    THEN OrAsItCame(ParseInt(val.s), val)
    ELSE val

\* The text leaves the coercion is called with.
LeafAlphabet == {"1", "0", "-", "+", ".", "e", "E", "_"}

S_TRUE == <<"T","R","U","E">>
S_False == <<"F","a","l","s","e">>
S_1_5e3 == <<"1",".","5","e","3">>
S_1Eneg2 == <<"1","E","-","2">>
S_neg12 == <<"-","1","2">>
S_sp1_5 == <<" ","1",".","5">>
S_sp5 == <<" ","5">>
S_Zeiss == <<"Z","e","i","s","s">>
S_1_0_5 == <<"1","_","0",".","5">>

NamedLeaves ==
    {S_true, S_false, S_TRUE, S_False, S_1_5e3, S_1Eneg2, S_neg12, S_sp1_5, S_sp5,
     S_Zeiss, S_1_0_5, S_abc, S_42}

LeafInputs ==
    {StrVal(s) : s \in StringsUpTo(LeafAlphabet, MaxLeafLen) \cup NamedLeaves}
        \cup {NullVal}

LeafInput(val) == Val("leaf", <<>>, <<>>, <<val>>)

(***************************************************************************)
(* _parse_generic_xml (tiff_extractor.py, lines 47-94), for a str.         *)
(***************************************************************************)
\* s[i:].startswith(lit)
StartsWithAt(s, i, lit) ==
    i >= 1 /\ i + Len(lit) - 1 <= Len(s) /\ SubSeq(s, i, i + Len(lit) - 1) = lit

\* s.find(lit, i): the first position from i on where lit stands, 0 for none
FindFrom(s, i, lit) ==
    LET at == {j \in i..Len(s) : StartsWithAt(s, j, lit)}
    IN  IF at = {} THEN 0 ELSE CHOOSE j \in at : \A k \in at : j <= k

X_comment == <<"<", "!", "-", "-">>
X_bang == <<"!", "-", "-">>
X_dashes == <<"-", "-">>
X_end == <<"-", "-", ">">>
X_empty == <<"<", "a", "/", ">">>
X_open == <<"<", "a", ">">>
X_close == <<"<", "/", "a", ">">>

\* What may follow the root element: whitespace and comments.
RECURSIVE IsMisc(_)
IsMisc(s) ==
    IF s = <<>>
    THEN TRUE
    ELSE IF IsSpace(s[1])
    THEN IsMisc(Rest(s))
    ELSE IF StartsWithAt(s, 1, X_comment)
    THEN LET close == FindFrom(s, 5, X_dashes)
         IN  /\ close # 0
             /\ StartsWithAt(s, close, X_end)
             /\ IsMisc(SubSeq(s, close + 3, Len(s)))
    ELSE FALSE

\* xmltodict.parse(clean_xml, postprocessor=postprocessor) for a text that
\* starts at a '<': the documents <a/> and <a>text</a>, followed by
\* whitespace and comments, give {"a": None} and {"a": <the coerced text>};
\* any other text of the model is not well-formed and the parse raises.
xmltodict_parse(clean_xml) ==
    IF StartsWithAt(clean_xml, 1, X_empty)
    THEN IF IsMisc(SubSeq(clean_xml, 5, Len(clean_xml)))
         THEN DictVal(<<Entry(K_a, NullVal)>>)
         ELSE ValueError
    ELSE IF StartsWithAt(clean_xml, 1, X_open)
    THEN LET lt == FindFrom(clean_xml, 4, <<"<">>)
             text == strip(SubSeq(clean_xml, 4, lt - 1))
         IN  IF /\ lt # 0
                /\ StartsWithAt(clean_xml, lt, X_close)
                /\ IsMisc(SubSeq(clean_xml, lt + 4, Len(clean_xml)))
             THEN DictVal(<<Entry(K_a, IF text = <<>>
                                       THEN NullVal
                                       ELSE postprocessor(StrVal(text)))>>)
             ELSE ValueError
    ELSE ValueError

\* re.search(r"<(?!!--)", xml_input): the first '<' that does not start a
\* comment, 0 for no match
FirstTagStart(xml_input) ==
    LET at == {i \in 1..Len(xml_input) :
                  xml_input[i] = "<" /\ ~StartsWithAt(xml_input, i + 1, X_bang)}
    IN  IF at = {} THEN 0 ELSE CHOOSE i \in at : \A j \in at : i <= j

\* _parse_generic_xml(xml_input), xml_input a str; None is NullVal
_parse_generic_xml(xml_input) ==
    IF strip(xml_input) = <<>>
    THEN NullVal
    ELSE IF strip(xml_input)[1] # "<"
    THEN NullVal
    ELSE IF FirstTagStart(xml_input) = 0
    THEN NullVal
    ELSE LET clean_xml == SubSeq(xml_input, FirstTagStart(xml_input), Len(xml_input))
         IN  OrAsItCame(xmltodict_parse(clean_xml), NullVal)

\* The texts _parse_generic_xml is called with: up to MaxPrefixParts pieces
\* of a prefix, then a document or none.
X_junk == <<"j">>
X_space == <<" ">>
X_a_comment == X_comment \o <<"j">> \o X_end
X_tag_in_comment == X_comment \o X_empty \o X_end
X_doc_1 == X_open \o <<"1">> \o X_close
X_doc_true == X_open \o S_true \o X_close

MaxPrefixParts == 2

PrefixParts == {X_junk, X_space, X_a_comment, X_tag_in_comment, X_comment, <<"<">>}

RECURSIVE Prefixes(_)
Prefixes(n) ==
    IF n = 0
    THEN {<<>>}
    ELSE LET shorter == Prefixes(n - 1)
         IN  shorter \cup {s \o part : s \in shorter, part \in PrefixParts}

Documents == {<<>>, X_empty, X_doc_1, X_doc_true, X_open, X_doc_1 \o X_space \o X_a_comment}

XmlTexts == {prefix \o doc : prefix \in Prefixes(MaxPrefixParts), doc \in Documents}

XmlInput(text) == Val("xml", text, <<>>, <<>>)

(***************************************************************************)
(* The XML blobs of tiff_extractor.extract (lines 125-175 and 203-278).    *)
(***************************************************************************)
K_error == <<"e", "r", "r", "o", "r">>
K_raw_value == <<"r", "a", "w", "_", "v", "a", "l", "u", "e">>
K_source_file_path ==
    <<"s", "o", "u", "r", "c", "e", "_", "f", "i", "l", "e", "_", "p", "a", "t", "h">>
K_top_level_tags ==
    <<"t", "o", "p", "_", "l", "e", "v", "e", "l", "_", "t", "a", "g", "s">>
K_ome_xml_string ==
    <<"o", "m", "e", "_", "x", "m", "l", "_", "s", "t", "r", "i", "n", "g">>
K_structured_ome_metadata ==
    <<"s", "t", "r", "u", "c", "t", "u", "r", "e", "d", "_", "o", "m", "e", "_", "m", "e", "t", "a", "d", "a", "t", "a">>
K_page_index_in_series ==
    <<"p", "a", "g", "e", "_", "i", "n", "d", "e", "x", "_", "i", "n", "_", "s", "e", "r", "i", "e", "s">>
K_image_description_xml ==
    <<"i", "m", "a", "g", "e", "_", "d", "e", "s", "c", "r", "i", "p", "t", "i", "o", "n", "_", "x", "m", "l">>
K_structured_image_description ==
    <<"s", "t", "r", "u", "c", "t", "u", "r", "e", "d", "_", "i", "m", "a", "g", "e", "_", "d", "e", "s", "c", "r", "i", "p", "t", "i", "o", "n">>
K_ImageDescription ==
    <<"I", "m", "a", "g", "e", "D", "e", "s", "c", "r", "i", "p", "t", "i", "o", "n">>
K_ImageWidth == <<"I", "m", "a", "g", "e", "W", "i", "d", "t", "h">>
S_PerkinElmer == <<"P", "e", "r", "k", "i", "n", "E", "l", "m", "e", "r">>
S_Failed_generic_XML_parse ==
    <<"F", "a", "i", "l", "e", "d", " ", "g", "e", "n", "e", "r", "i", "c", " ", "X", "M", "L", " ", "p", "a", "r", "s", "e">>

\* A truthy value: `if parsed:`, `if tif.ome_metadata:`
Truthy(val) ==
    /\ val # NullVal
    /\ val.t \in {"dict", "list"} => val.c # <<>>
    /\ val.t = "str" => val.s # <<>>

\* _parse_perkinelmer_xml(xml_string), lines 125-175, for a document without
\* a ScanProfile element
_parse_perkinelmer_xml(xml_string) ==
    LET parsed == _parse_generic_xml(xml_string)
    IN  IF ~Truthy(parsed)
        THEN DictVal(<<Entry(K_error, StrVal(S_Failed_generic_XML_parse)),
                       Entry(K_raw_value, StrVal(xml_string))>>)
        ELSE parsed

\* "PerkinElmer" in xml_str_from_description
Contains(s, lit) == FindFrom(s, 1, lit) # 0

\* A TIFF file as tifffile shows it: the OME metadata (NullVal for none), for
\* each page of the first series the value of its ImageDescription tag
\* (NullVal for a page without that tag), and whether the path holds "QPTIFF".
TiffFile(ome_metadata, descriptions, qptiff) ==
    [ome_metadata |-> ome_metadata, descriptions |-> descriptions, qptiff |-> qptiff]

\* _find_xml_description_in_tags(page), lines 97-122: the description if it
\* is a str that starts with '<' after whitespace
_find_xml_description_in_tags(description) ==
    IF description.t = "str" /\ strip(description.s) # <<>> /\ strip(description.s)[1] = "<"
    THEN description
    ELSE NullVal

\* The body of the loop over the pages, lines 229-275: page_data
PageData(tif, i) ==
    LET description == tif.descriptions[i]
        xml_str_from_description == _find_xml_description_in_tags(description)
        parsed_desc_xml ==
            IF Contains(xml_str_from_description.s, S_PerkinElmer) \/ tif.qptiff
            THEN _parse_perkinelmer_xml(xml_str_from_description.s)
            ELSE _parse_generic_xml(xml_str_from_description.s)
        tags ==
            (IF description = NullVal THEN <<>> ELSE <<Entry(K_ImageDescription, description)>>)
                \o <<Entry(K_ImageWidth, IntVal(1))>>
    IN  DictVal(<<Entry(K_page_index_in_series, IntVal(i - 1)),
                  Entry(K_tags, DictVal(tags))>>
                \o (IF Truthy(xml_str_from_description)
                    THEN <<Entry(K_image_description_xml, xml_str_from_description)>>
                         \o (IF Truthy(parsed_desc_xml)
                             THEN <<Entry(K_structured_image_description, parsed_desc_xml)>>
                             ELSE <<>>)
                    ELSE <<>>))

\* tiff_extractor.extract, lines 203-278 and 290, for a file that opens and
\* has pages with tags: the tree returned
tiff_extract(tif) ==
    LET parsed_ome == _parse_generic_xml(tif.ome_metadata.s)
        top_level_tags ==
            IF Truthy(tif.ome_metadata)
            THEN <<Entry(K_ome_xml_string, tif.ome_metadata)>>
                 \o (IF Truthy(parsed_ome)
                     THEN <<Entry(K_structured_ome_metadata, parsed_ome)>>
                     ELSE <<>>)
            ELSE <<>>
    IN  DictVal(<<Entry(K_source_file_path, StrVal(IF tif.qptiff THEN <<"q">> ELSE <<"x">>)),
                  Entry(K_pages, ListVal([i \in 1..Len(tif.descriptions) |-> PageData(tif, i)]))>>
                \o (IF top_level_tags # <<>>
                    THEN <<Entry(K_top_level_tags, DictVal(top_level_tags))>>
                    ELSE <<>>))

\* The files extract is called with.
MaxPages == 2

X_perkin == X_open \o S_PerkinElmer
X_not_xml == <<"j", "<", "a", "/", ">">>

Blobs == {NullVal, StrVal(X_doc_1), StrVal(X_open), StrVal(X_perkin), StrVal(X_not_xml)}

RECURSIVE BlobSeqs(_)
BlobSeqs(n) ==
    IF n = 0
    THEN {<<>>}
    ELSE LET shorter == BlobSeqs(n - 1)
         IN  shorter \cup {Append(s, b) : s \in shorter, b \in Blobs}

TiffFiles ==
    {TiffFile(ome, descriptions, qptiff) :
        ome \in {NullVal, StrVal(X_doc_1), StrVal(X_open)},
        descriptions \in BlobSeqs(MaxPages) \ {<<>>},
        qptiff \in BOOLEAN}

TiffInput(tif) ==
    Val("tiff", IF tif.qptiff THEN <<"q">> ELSE <<"x">>, <<>>,
        <<tif.ome_metadata>> \o tif.descriptions)

TiffOf(in) == TiffFile(in.c[1], Rest(in.c), in.s = <<"q">>)

KeyInput(key) == Val("key", key, <<>>, <<>>)
TreeInput(tree) == Val("tree", <<>>, <<>>, <<tree>>)

\* A list of str.
StrList(strs) == ListVal([i \in 1..Len(strs) |-> StrVal(strs[i])])
StrsOf(list) == [i \in 1..Len(list.c) |-> list.c[i].s]
StrSetOf(list) == {list.c[i].s : i \in 1..Len(list.c)}

PathsInput(paths) == Val("paths", <<>>, <<>>, StrList(sorted(paths)).c)

Inputs ==
    {KeyInput(k) : k \in KeyInputs}
        \cup {TreeInput(tree) : tree \in TreeInputs}
        \cup {PathsInput(paths) : paths \in PathSets}
        \cup {LeafInput(val) : val \in LeafInputs}
        \cup {XmlInput(text) : text \in XmlTexts}
        \cup {TiffInput(tif) : tif \in TiffFiles}

(***************************************************************************)
(* The calls.                                                              *)
(***************************************************************************)
Init ==
    /\ input \in Inputs
    /\ LET built == IF input.t = "tree"
                    THEN Build(<<>>, input.c[1])
                    ELSE [h |-> <<>>, r |-> NullVal]
       IN  heap = built.h /\ raw = built.r
    /\ op = "none"
    /\ out = NullVal
    /\ keypath_file = <<>>
    /\ template_file = <<>>
    /\ caller = "none"
    /\ directory = {}
    /\ files_to_process = <<>>
    /\ idx = 0
    /\ pc = "idle"
    /\ extractor_func = "unset"
    /\ wf_raw_metadata = "unset"
    /\ wf_processed_data = "unset"
    /\ artifacts = {}
    /\ events = <<>>
    /\ faults = 0
    /\ success_count = 0
    /\ failure_count = 0
    /\ exit_status = -1
    /\ discovered_plugins = <<>>
    /\ registry = NotLoaded

\* _to_camel_case(key)
CallToCamelCase ==
    /\ op = "none"
    /\ input.t = "key"
    /\ op' = "_to_camel_case"
    /\ out' = StrVal(_to_camel_case(input.s))
    /\ UNCHANGED <<input, heap, raw, keypath_file, template_file>>
    /\ UNCHANGED <<batch_vars, registry_vars>>

\* normalize_recursively(data)
CallNormalize ==
    /\ op = "none"
    /\ input.t = "tree"
    /\ LET res == normalize_recursively(heap, raw)
       IN  heap' = res.h /\ out' = res.r
    /\ op' = "normalize_recursively"
    /\ UNCHANGED <<input, raw, keypath_file, template_file>>
    /\ UNCHANGED <<batch_vars, registry_vars>>

\* process(raw_data), raw_data a dict
CallProcess ==
    /\ op = "none"
    /\ input.t = "tree"
    /\ IsDictRef(heap, raw)
    /\ LET res == process(heap, raw)
       IN  heap' = res.h /\ out' = res.r
    /\ op' = "process"
    /\ UNCHANGED <<input, raw, keypath_file, template_file>>
    /\ UNCHANGED <<batch_vars, registry_vars>>

\* process(processed_data), processed_data the dict the call before returned
CallProcessAgain ==
    /\ op = "process"
    /\ LET res == process(heap, out)
       IN  heap' = res.h /\ out' = res.r
    /\ op' = "process again"
    /\ UNCHANGED <<input, raw, keypath_file, template_file>>
    /\ UNCHANGED <<batch_vars, registry_vars>>

\* get_key_paths(data)
CallGetKeyPaths ==
    /\ op = "none"
    /\ input.t = "tree"
    /\ op' = "get_key_paths"
    /\ LET paths == get_key_paths(Deref(heap, raw), <<>>)
       IN  out' = ListVal([i \in 1..Len(paths) |-> StrVal(paths[i])])
    /\ UNCHANGED <<input, heap, raw, keypath_file, template_file>>
    /\ UNCHANGED <<batch_vars, registry_vars>>

\* write_key_paths_to_file(data, keypath_file, template_file)
CallWriteKeyPaths ==
    /\ op = "none"
    /\ input.t = "tree"
    /\ op' = "write_key_paths_to_file"
    /\ LET files == write_key_paths_to_file(Deref(heap, raw))
       IN  /\ keypath_file' = files.keypath_file
           /\ template_file' = files.template_file
    /\ UNCHANGED <<input, heap, raw, out>>
    /\ UNCHANGED <<batch_vars, registry_vars>>

\* extract_key_paths(data): the set returned, as the sorted list of its members
CallExtractKeyPaths ==
    /\ op = "none"
    /\ input.t = "tree"
    /\ op' = "extract_key_paths"
    /\ out' = StrList(sorted(extract_key_paths(Deref(heap, raw), <<>>)))
    /\ UNCHANGED <<input, heap, raw, keypath_file, template_file>>
    /\ UNCHANGED <<batch_vars, registry_vars>>

\* template_key_paths(paths)
CallTemplateKeyPaths ==
    /\ op = "none"
    /\ input.t = "paths"
    /\ op' = "template_key_paths"
    /\ out' = StrList(template_key_paths(StrSetOf(input)))
    /\ UNCHANGED <<input, heap, raw, keypath_file, template_file>>
    /\ UNCHANGED <<batch_vars, registry_vars>>

\* template_key_paths(set(templates)), templates the list the call before returned
CallTemplateKeyPathsAgain ==
    /\ op = "template_key_paths"
    /\ op' = "template_key_paths again"
    /\ out' = StrList(template_key_paths(StrSetOf(out)))
    /\ UNCHANGED <<input, heap, raw, keypath_file, template_file>>
    /\ UNCHANGED <<batch_vars, registry_vars>>

\* generate_structure_template(key_paths)
CallGenerateStructureTemplate ==
    /\ op = "none"
    /\ input.t = "paths"
    /\ op' = "generate_structure_template"
    /\ out' = StrList(generate_structure_template(StrsOf(input)))
    /\ UNCHANGED <<input, heap, raw, keypath_file, template_file>>
    /\ UNCHANGED <<batch_vars, registry_vars>>

\* generate_structure_template(templates), templates the list the call before
\* returned
CallGenerateStructureTemplateAgain ==
    /\ op = "generate_structure_template"
    /\ op' = "generate_structure_template again"
    /\ out' = StrList(generate_structure_template(StrsOf(out)))
    /\ UNCHANGED <<input, heap, raw, keypath_file, template_file>>
    /\ UNCHANGED <<batch_vars, registry_vars>>

\* postprocessor(path, key, val)
CallPostprocessor ==
    /\ op = "none"
    /\ input.t = "leaf"
    /\ op' = "postprocessor"
    /\ out' = postprocessor(input.c[1])
    /\ UNCHANGED <<input, heap, raw, keypath_file, template_file>>
    /\ UNCHANGED <<batch_vars, registry_vars>>

\* _parse_generic_xml(xml_input)
CallParseGenericXml ==
    /\ op = "none"
    /\ input.t = "xml"
    /\ op' = "_parse_generic_xml"
    /\ out' = _parse_generic_xml(input.s)
    /\ UNCHANGED <<input, heap, raw, keypath_file, template_file>>
    /\ UNCHANGED <<batch_vars, registry_vars>>

\* tiff_extractor.extract(context)
CallTiffExtract ==
    /\ op = "none"
    /\ input.t = "tiff"
    /\ op' = "tiff_extractor.extract"
    /\ out' = tiff_extract(TiffOf(input))
    /\ UNCHANGED <<input, heap, raw, keypath_file, template_file>>
    /\ UNCHANGED <<batch_vars, registry_vars>>

Next ==
    \/ CallPostprocessor
    \/ CallParseGenericXml
    \/ CallTiffExtract
    \/ CallToCamelCase
    \/ CallNormalize
    \/ CallProcess
    \/ CallProcessAgain
    \/ CallGetKeyPaths
    \/ CallWriteKeyPaths
    \/ CallExtractKeyPaths
    \/ CallTemplateKeyPaths
    \/ CallTemplateKeyPathsAgain
    \/ CallGenerateStructureTemplate
    \/ CallGenerateStructureTemplateAgain

Spec == Init /\ [][Next]_vars

(***************************************************************************)
(* cli.py, extractors/__init__.py and workflow/workflow.py: the batch of   *)
(* cli.main and the pipeline run_for_file runs for one file.               *)
(***************************************************************************)
E_tiff == <<".", "t", "i", "f", "f">>
E_tif == <<".", "t", "i", "f">>
E_qptiff == <<".", "q", "p", "t", "i", "f", "f">>
E_czi == <<".", "c", "z", "i">>

SUPPORTED_EXTENSIONS == <<E_tiff, E_tif, E_qptiff, E_czi>>

_BUILTIN_EXTRACTORS ==
    [e \in {E_tiff, E_tif, E_qptiff} |-> "tiff_extractor.extract"]
        @@ (E_czi :> "czi_extractor.extract")

\* Path.suffix, Path.stem of a file name
LastDot(name) ==
    IF \E i \in 1..Len(name) : name[i] = "."
    THEN CHOOSE i \in 1..Len(name) :
             name[i] = "." /\ \A j \in (i + 1)..Len(name) : name[j] # "."
    ELSE 0

suffix(name) ==
    IF LastDot(name) > 1 /\ LastDot(name) < Len(name)
    THEN SubSeq(name, LastDot(name), Len(name))
    ELSE <<>>

stem(name) == SubSeq(name, 1, Len(name) - Len(suffix(name)))

\* get_extractor(file_extension): the registry holds the built-in extractors
get_extractor(file_extension) ==
    IF LowerStr(file_extension) \in DOMAIN _BUILTIN_EXTRACTORS
    THEN _BUILTIN_EXTRACTORS[LowerStr(file_extension)]
    ELSE "None"

\* glob(f"*{ext}")
EndsWith(name, ext) ==
    /\ Len(name) >= Len(ext)
    /\ SubSeq(name, Len(name) - Len(ext) + 1, Len(name)) = ext

\* find_files(target_path_str) for the files the path holds: the sorted list
\* of those with a supported extension
find_files(names) ==
    LET globbed ==
            {f \in names :
                \E i \in 1..Len(SUPPORTED_EXTENSIONS) :
                    \/ EndsWith(f, SUPPORTED_EXTENSIONS[i])
                    \/ EndsWith(f, UpperStr(SUPPORTED_EXTENSIONS[i]))}
    IN  sorted({f \in globbed : IsIn(SUPPORTED_EXTENSIONS, LowerStr(suffix(f)))})

\* The files an input path may hold.
N_x_tif == <<"x", ".", "t", "i", "f">>
N_x_TIF == <<"x", ".", "T", "I", "F">>
N_x_czi == <<"x", ".", "c", "z", "i">>
N_y_tif == <<"y", ".", "t", "i", "f">>
N_x_txt == <<"x", ".", "t", "x", "t">>

FileNames == {N_x_tif, N_x_TIF, N_x_czi, N_y_tif, N_x_txt}

\* The file run_for_file is called with.
image_file_path == files_to_process[idx]

\* The output directory after <stem><name> was written, wholly or not, for
\* the current file: open(path, "w") replaces what the path held.
Put(files, name, whole) ==
    {a \in files : ~(a.of = stem(image_file_path) /\ a.name = name)}
        \cup {[of |-> stem(image_file_path), name |-> name, by |-> idx, whole |-> whole]}

\* A stage of the current file ended with the outcome.
Did(stage, outcome) ==
    events' = Append(events, [file |-> idx, stage |-> stage, outcome |-> outcome])

\* An operation raises.
Fault == faults < MaxFaults /\ faults' = faults + 1

\* with open(path, "w") as f: json.dump(...) inside try / except Exception:
\* the file is written, or the dump raises before or after the file was opened.
Dump(stage, name) ==
    \/ /\ Did(stage, "ok")
       /\ artifacts' = Put(artifacts, name, TRUE)
       /\ UNCHANGED faults
    \/ /\ Fault
       /\ Did(stage, "raised")
       /\ \E opened \in BOOLEAN :
              artifacts' = IF opened THEN Put(artifacts, name, FALSE) ELSE artifacts

main_vars ==
    <<caller, directory, files_to_process, idx, success_count, failure_count, exit_status>>

BatchInit ==
    /\ input = NullVal
    /\ heap = <<>>
    /\ raw = NullVal
    /\ op = "none"
    /\ out = NullVal
    /\ keypath_file = <<>>
    /\ template_file = <<>>
    /\ caller \in {"main", "run_for_file"}
    /\ directory \in IF caller = "main"
                     THEN {names \in SUBSET FileNames : Cardinality(names) <= MaxFiles}
                     ELSE {{f} : f \in FileNames}
    /\ files_to_process = IF caller = "main" THEN <<>> ELSE sorted(directory)
    /\ idx = IF caller = "main" THEN 0 ELSE 1
    /\ pc = IF caller = "main" THEN "main" ELSE "run_for_file"
    /\ extractor_func = "unset"
    /\ wf_raw_metadata = "unset"
    /\ wf_processed_data = "unset"
    /\ artifacts = {}
    /\ events = <<>>
    /\ faults = 0
    /\ success_count = 0
    /\ failure_count = 0
    /\ exit_status = -1
    /\ discovered_plugins = <<>>
    /\ registry = NotLoaded

\* cli.main, lines 117-136: no file found, exit 0; else the output directory
\* is made and the loop starts.
Main ==
    /\ pc = "main"
    /\ files_to_process' = find_files(directory)
    /\ IF files_to_process' = <<>>
       THEN pc' = "exited" /\ exit_status' = 0 /\ idx' = idx
       ELSE pc' = "for" /\ exit_status' = exit_status /\ idx' = 1
    /\ UNCHANGED <<call_vars, registry_vars, caller, directory, extractor_func, wf_raw_metadata,
                   wf_processed_data, artifacts, events, faults, success_count,
                   failure_count>>

\* cli.main, lines 126-131: output_directory.mkdir raises OSError, exit 1
MainMkdirFails ==
    /\ pc = "main"
    /\ find_files(directory) # <<>>
    /\ Fault
    /\ files_to_process' = find_files(directory)
    /\ pc' = "exited"
    /\ exit_status' = 1
    /\ UNCHANGED <<call_vars, registry_vars, caller, directory, idx, extractor_func, wf_raw_metadata,
                   wf_processed_data, artifacts, events, success_count, failure_count>>

\* cli.main, line 138: the next file of the batch, or the end of the loop
For ==
    /\ pc = "for"
    /\ pc' = IF idx <= Len(files_to_process) THEN "run_for_file" ELSE "tally"
    /\ UNCHANGED <<call_vars, registry_vars, main_vars, extractor_func, wf_raw_metadata,
                   wf_processed_data, artifacts, events, faults>>

\* run_for_file, lines 19-33: the context, the output directory, the extractor
RunForFile ==
    /\ pc = "run_for_file"
    /\ extractor_func' = get_extractor(LowerStr(suffix(image_file_path)))
    /\ wf_raw_metadata' = "unset"
    /\ wf_processed_data' = "unset"
    /\ pc' = IF extractor_func' = "None" THEN "no_extractor" ELSE "extract"
    /\ Did("run_for_file", "ok")
    /\ UNCHANGED <<call_vars, registry_vars, main_vars, artifacts, faults>>

\* run_for_file, lines 19-33: one of these statements raises (mkdir,
\* resolve, loading the registry); nothing catches it in run_for_file
RunForFileRaises ==
    /\ pc = "run_for_file"
    /\ Fault
    /\ Did("run_for_file", "raised")
    /\ pc' = "except"
    /\ UNCHANGED <<call_vars, registry_vars, main_vars, extractor_func, wf_raw_metadata,
                   wf_processed_data, artifacts>>

\* A plausible slip: without an extractor the file is skipped silently.
NoExtractorNoReport ==
    /\ pc = "no_extractor"
    /\ Did("error_report", "ok")
    /\ pc' = "return"
    /\ UNCHANGED <<call_vars, registry_vars, main_vars, extractor_func, wf_raw_metadata,
                   wf_processed_data, artifacts, faults>>

\* run_for_file, lines 34-51: no extractor; the error report is written, or
\* the IOError of writing it is logged; return
NoExtractor ==
    /\ pc = "no_extractor"
    /\ \/ /\ artifacts' = Put(artifacts, "_error.json", TRUE)
          /\ Did("error_report", "ok")
          /\ UNCHANGED faults
       \/ /\ Fault
          /\ Did("error_report", "IOError")
          /\ \E opened \in BOOLEAN :
                 artifacts' = IF opened
                              THEN Put(artifacts, "_error.json", FALSE)
                              ELSE artifacts
    /\ pc' = "return"
    /\ UNCHANGED <<call_vars, registry_vars, main_vars, extractor_func, wf_raw_metadata,
                   wf_processed_data>>

\* The trees an extractor returns (tiff_extractor.extract, lines 197, 203 and
\* 280-290): without an `error` field, with one next to what was extracted
\* before the failure, and with nothing but `error`.
ExtractedTrees == {"tree", "tree with error", "only error"}

\* A plausible slip: a tree that holds an `error` ends the pipeline as None does.
ExtractStopsOnError ==
    /\ pc = "extract"
    /\ \/ /\ wf_raw_metadata' \in ExtractedTrees
          /\ Did("extract", "ok")
          /\ pc' = IF wf_raw_metadata' = "tree" THEN "raw_dump" ELSE "return"
          /\ UNCHANGED faults
       \/ /\ wf_raw_metadata' = "None"
          /\ Did("extract", "None")
          /\ pc' = "return"
          /\ UNCHANGED faults
       \/ /\ Fault
          /\ wf_raw_metadata' = "None"
          /\ Did("extract", "raised")
          /\ pc' = "return"
    /\ UNCHANGED <<call_vars, registry_vars, main_vars, extractor_func, wf_processed_data, artifacts>>

\* A plausible slip: the handler of the extraction writes an error report.
ExtractWritesErrorReport ==
    /\ pc = "extract"
    /\ \/ /\ wf_raw_metadata' \in ExtractedTrees
          /\ Did("extract", "ok")
          /\ pc' = "raw_dump"
          /\ UNCHANGED <<faults, artifacts>>
       \/ /\ wf_raw_metadata' = "None"
          /\ Did("extract", "None")
          /\ pc' = "return"
          /\ UNCHANGED <<faults, artifacts>>
       \/ /\ Fault
          /\ wf_raw_metadata' = "None"
          /\ Did("extract", "raised")
          /\ artifacts' = Put(artifacts, "_error.json", TRUE)
          /\ pc' = "return"
    /\ UNCHANGED <<call_vars, registry_vars, main_vars, extractor_func, wf_processed_data>>

\* run_for_file, lines 56-71: extraction; return when it raises or returns
\* None, and on to the raw dump with any tree, whatever it holds
Extract ==
    /\ pc = "extract"
    /\ \/ /\ wf_raw_metadata' \in ExtractedTrees
          /\ Did("extract", "ok")
          /\ pc' = "raw_dump"
          /\ UNCHANGED faults
       \/ /\ wf_raw_metadata' = "None"
          /\ Did("extract", "None")
          /\ pc' = "return"
          /\ UNCHANGED faults
       \/ /\ Fault
          /\ wf_raw_metadata' = "None"
          /\ Did("extract", "raised")
          /\ pc' = "return"
    /\ UNCHANGED <<call_vars, registry_vars, main_vars, extractor_func, wf_processed_data, artifacts>>

\* A plausible slip: the handler of the raw dump returns, as the handlers of
\* the extraction and of the normalization do.
RawDumpFailFast ==
    /\ pc = "raw_dump"
    /\ Dump("raw_dump", "_raw_metadata.json")
    /\ pc' = IF faults' = faults THEN "process" ELSE "return"
    /\ UNCHANGED <<call_vars, registry_vars, main_vars, extractor_func, wf_raw_metadata,
                   wf_processed_data>>

\* run_for_file, lines 73-82: the raw dump; an exception is logged
RawDump ==
    /\ pc = "raw_dump"
    /\ Dump("raw_dump", "_raw_metadata.json")
    /\ pc' = "process"
    /\ UNCHANGED <<call_vars, registry_vars, main_vars, extractor_func, wf_raw_metadata,
                   wf_processed_data>>

\* A plausible slip: the key paths are generated right after normalization,
\* the processed dump is left out.
ProcessThenKeyPaths ==
    /\ pc = "process"
    /\ \/ /\ wf_processed_data' = "tree"
          /\ Did("process", "ok")
          /\ pc' = "key_paths"
          /\ UNCHANGED faults
       \/ /\ Fault
          /\ wf_processed_data' = "None"
          /\ Did("process", "raised")
          /\ pc' = "return"
    /\ UNCHANGED <<call_vars, registry_vars, main_vars, extractor_func, wf_raw_metadata, artifacts>>

\* run_for_file, lines 84-100: normalization; return when it raises
Process ==
    /\ pc = "process"
    /\ \/ /\ wf_processed_data' = "tree"
          /\ Did("process", "ok")
          /\ pc' = "processed_dump"
          /\ UNCHANGED faults
       \/ /\ Fault
          /\ wf_processed_data' = "None"
          /\ Did("process", "raised")
          /\ pc' = "return"
    /\ UNCHANGED <<call_vars, registry_vars, main_vars, extractor_func, wf_raw_metadata, artifacts>>

\* run_for_file, lines 102-111: the processed dump; an exception is logged
ProcessedDump ==
    /\ pc = "processed_dump"
    /\ Dump("processed_dump", "_processed_metadata.json")
    /\ pc' = "key_paths"
    /\ UNCHANGED <<call_vars, registry_vars, main_vars, extractor_func, wf_raw_metadata,
                   wf_processed_data>>

\* run_for_file, lines 115-128: the key paths and the template; an exception
\* is logged, whatever write_key_paths_to_file wrote before it stays
KeyPaths ==
    /\ pc = "key_paths"
    /\ \/ /\ Did("key_paths", "ok")
          /\ artifacts' = Put(Put(artifacts, "_key_paths.txt", TRUE),
                              "_metadata_structure_template.txt", TRUE)
          /\ UNCHANGED faults
       \/ /\ Fault
          /\ Did("key_paths", "raised")
          /\ \/ artifacts' = artifacts
             \/ artifacts' = Put(artifacts, "_key_paths.txt", FALSE)
             \/ artifacts' = Put(Put(artifacts, "_key_paths.txt", TRUE),
                                 "_metadata_structure_template.txt", FALSE)
    /\ pc' = "report"
    /\ UNCHANGED <<call_vars, registry_vars, main_vars, extractor_func, wf_raw_metadata,
                   wf_processed_data>>

\* run_for_file, lines 131-142: the report; an exception of
\* generate_markdown_content is logged here, an IOError of the write inside
\* create_markdown_report
Report ==
    /\ pc = "report"
    /\ \/ /\ Did("report", "ok")
          /\ artifacts' = Put(artifacts, "_report.md", TRUE)
          /\ UNCHANGED faults
       \/ /\ Fault
          /\ Did("report", "raised")
          /\ artifacts' = artifacts
       \/ /\ Fault
          /\ Did("report", "IOError")
          /\ \E opened \in BOOLEAN :
                 artifacts' = IF opened
                              THEN Put(artifacts, "_report.md", FALSE)
                              ELSE artifacts
    /\ pc' = "return"
    /\ UNCHANGED <<call_vars, registry_vars, main_vars, extractor_func, wf_raw_metadata,
                   wf_processed_data>>

\* run_for_file returns; cli.main, lines 146-147: success_count += 1
Return ==
    /\ pc = "return"
    /\ Did("return", "ok")
    /\ IF caller = "main"
       THEN /\ success_count' = success_count + 1
            /\ idx' = idx + 1
            /\ pc' = "for"
       ELSE /\ pc' = "exited"
            /\ UNCHANGED <<success_count, idx>>
    /\ UNCHANGED <<call_vars, registry_vars, caller, directory, files_to_process, failure_count,
                   exit_status, extractor_func, wf_raw_metadata, wf_processed_data,
                   artifacts, faults>>

\* A plausible slip: success_count += 1 stands before the call of
\* run_for_file, so a file that raises is counted twice.
ExceptAfterCountedSuccess ==
    /\ pc = "except"
    /\ caller = "main"
    /\ success_count' = success_count + 1
    /\ failure_count' = failure_count + 1
    /\ artifacts' = Put(artifacts, "_WORKFLOW_ERROR.txt", TRUE)
    /\ Did("except", "ok")
    /\ idx' = idx + 1
    /\ pc' = "for"
    /\ UNCHANGED <<call_vars, registry_vars, caller, directory, files_to_process,
                   exit_status, extractor_func, wf_raw_metadata, wf_processed_data,
                   faults>>

\* cli.main, lines 148-160: run_for_file raised; failure_count += 1 and the
\* error file is written
Except ==
    /\ pc = "except"
    /\ caller = "main"
    /\ failure_count' = failure_count + 1
    /\ artifacts' = Put(artifacts, "_WORKFLOW_ERROR.txt", TRUE)
    /\ Did("except", "ok")
    /\ idx' = idx + 1
    /\ pc' = "for"
    /\ UNCHANGED <<call_vars, registry_vars, caller, directory, files_to_process, success_count,
                   exit_status, extractor_func, wf_raw_metadata, wf_processed_data,
                   faults>>

\* cli.main, lines 155-160: writing the error file raises; nothing catches
\* it, the process ends with a traceback and status 1
ExceptWriteRaises ==
    /\ pc = "except"
    /\ caller = "main"
    /\ Fault
    /\ failure_count' = failure_count + 1
    /\ \E opened \in BOOLEAN :
           artifacts' = IF opened
                        THEN Put(artifacts, "_WORKFLOW_ERROR.txt", FALSE)
                        ELSE artifacts
    /\ Did("except", "raised")
    /\ pc' = "exited"
    /\ exit_status' = 1
    /\ UNCHANGED <<call_vars, registry_vars, caller, directory, files_to_process, idx, success_count,
                   extractor_func, wf_raw_metadata, wf_processed_data>>

\* run_for_file called by another caller: the exception goes to that caller
Propagate ==
    /\ pc = "except"
    /\ caller = "run_for_file"
    /\ Did("except", "raised")
    /\ pc' = "exited"
    /\ UNCHANGED <<call_vars, registry_vars, main_vars, extractor_func, wf_raw_metadata,
                   wf_processed_data, artifacts, faults>>

\* cli.main, lines 162-169: the tally is logged; exit 1 if a file failed
Tally ==
    /\ pc = "tally"
    /\ events' = Append(events, [file |-> 0, stage |-> "tally", outcome |-> "ok"])
    /\ exit_status' = IF failure_count > 0 THEN 1 ELSE 0
    /\ pc' = "exited"
    /\ UNCHANGED <<call_vars, registry_vars, caller, directory, files_to_process, idx, success_count,
                   failure_count, extractor_func, wf_raw_metadata, wf_processed_data,
                   artifacts, faults>>

BatchNext ==
    \/ Main
    \/ MainMkdirFails
    \/ For
    \/ RunForFile
    \/ RunForFileRaises
    \/ NoExtractor
    \/ Extract
    \/ RawDump
    \/ Process
    \/ ProcessedDump
    \/ KeyPaths
    \/ Report
    \/ Return
    \/ Except
    \/ ExceptWriteRaises
    \/ Propagate
    \/ Tally

BatchSpec == BatchInit /\ [][BatchNext]_vars

(***************************************************************************)
(* The extractor registry (extractors/__init__.py).                        *)
(***************************************************************************)
\* An entry point: its name, what entry_point.load() does ("callable",
\* "not callable", "raises") and the object it loads.
EntryPoint(name, loads, plugin) == [name |-> name, loads |-> loads, plugin |-> plugin]

\* The body of the loop of _load_extractors, lines 50-92.  entry_point is an
\* importlib.metadata.EntryPoint (line 3), which has no attribute
\* module_name: the messages of lines 62, 71, 79 and 85 raise AttributeError,
\* caught at line 88.  For lines 62 and 71 the plugin is skipped all the
\* same; at line 79, for an extension that is registered already, the
\* exception comes before the assignment of line 83; at line 85 after it.
Register(loaded_registry, entry_point) ==
    IF entry_point.loads = "raises"
    THEN loaded_registry
    ELSE IF ~StartsWithAt(entry_point.name, 1, <<".">>)
    THEN loaded_registry
    ELSE IF entry_point.loads = "not callable"
    THEN loaded_registry
    ELSE IF LowerStr(entry_point.name) \in DOMAIN loaded_registry
    THEN loaded_registry
    ELSE [ext \in DOMAIN loaded_registry \cup {LowerStr(entry_point.name)} |->
             IF ext = LowerStr(entry_point.name)
             THEN entry_point.plugin
             ELSE loaded_registry[ext]]

\* The loop of _load_extractors over the entry points, in their order.
RECURSIVE RegisterAll(_, _)
RegisterAll(loaded_registry, entry_points) ==
    IF entry_points = <<>>
    THEN loaded_registry
    ELSE RegisterAll(Register(loaded_registry, Head(entry_points)), Tail(entry_points))

\* _load_extractors(), lines 30-98
_load_extractors(current, entry_points) ==
    IF current.loaded
    THEN current
    ELSE [loaded |-> TRUE, extractors |-> RegisterAll(_BUILTIN_EXTRACTORS, entry_points)]

\* current_registry.get(file_extension.lower()), line 121
RegistryGet(current_registry, file_extension) ==
    IF LowerStr(file_extension) \in DOMAIN current_registry
    THEN current_registry[LowerStr(file_extension)]
    ELSE "None"

\* The entry points an installation may hold, and the extensions asked for.
MaxPlugins == 2

E_TIF == <<".", "T", "I", "F">>
E_Czi == <<".", "C", "z", "i">>
E_nd2 == <<".", "n", "d", "2">>
E_no_dot == <<"t", "i", "f">>

EntryPoints ==
    {EntryPoint(name, loads, plugin) :
        name \in {E_tif, E_TIF, E_nd2, E_no_dot},
        loads \in {"callable", "not callable", "raises"},
        plugin \in {"plugin_1.extract", "plugin_2.extract"}}

RECURSIVE EntryPointSeqs(_)
EntryPointSeqs(n) ==
    IF n = 0
    THEN {<<>>}
    ELSE LET shorter == EntryPointSeqs(n - 1)
         IN  shorter \cup {Append(s, ep) : s \in shorter, ep \in EntryPoints}

Extensions == {E_tiff, E_tif, E_TIF, E_qptiff, E_czi, E_Czi, E_nd2, E_no_dot}

RegistryInit ==
    /\ input = NullVal
    /\ heap = <<>>
    /\ raw = NullVal
    /\ op = "none"
    /\ out = NullVal
    /\ keypath_file = <<>>
    /\ template_file = <<>>
    /\ caller = "none"
    /\ directory = {}
    /\ files_to_process = <<>>
    /\ idx = 0
    /\ pc = "idle"
    /\ extractor_func = "unset"
    /\ wf_raw_metadata = "unset"
    /\ wf_processed_data = "unset"
    /\ artifacts = {}
    /\ events = <<>>
    /\ faults = 0
    /\ success_count = 0
    /\ failure_count = 0
    /\ exit_status = -1
    /\ discovered_plugins \in EntryPointSeqs(MaxPlugins)
    /\ registry = NotLoaded

\* get_extractor(file_extension), lines 101-121: the first call loads the
\* registry
GetExtractor ==
    /\ \E file_extension \in Extensions :
           /\ input' = StrVal(file_extension)
           /\ registry' = _load_extractors(registry, discovered_plugins)
           /\ out' = StrVal(RegistryGet(registry'.extractors, file_extension))
    /\ op' = "get_extractor"
    /\ UNCHANGED <<heap, raw, keypath_file, template_file, batch_vars, discovered_plugins>>

RegistryNext == GetExtractor

RegistrySpec == RegistryInit /\ [][RegistryNext]_vars

(***************************************************************************)
(* Properties of _to_camel_case.                                           *)
(***************************************************************************)
\* The words of a key: what is left after '-' and '_' became spaces.
Tokens(text) == split(replace(replace(text, "-", " "), "_", " "))

\* C1: a key of two or more tokens gives the first token with its first
\* character lower-cased, followed by every later token with its first
\* character upper-cased and its other characters unchanged.
C1_LaterTokensKeepTheirRest ==
    (op = "_to_camel_case" /\ Len(Tokens(input.s)) >= 2) =>
        LET parts == Tokens(input.s)
        IN  out.s = <<lower(parts[1][1])>> \o Rest(parts[1])
                      \o Join([i \in 1..(Len(parts) - 1) |-> UpperFirst(parts[i + 1])])

C3_CasingIdempotent ==
    op = "_to_camel_case" => _to_camel_case(out.s) = out.s

C3_Witness ==
    /\ op = "_to_camel_case"
    /\ input.s = K_Image_Width_kebab
    /\ out.s = K_imageWidth
    /\ _to_camel_case(out.s) = K_imageWidth

(***************************************************************************)
(* Properties of normalize_recursively and process.                        *)
(***************************************************************************)
\* The tree normalize_recursively returns for a tree.
Normalized(tree) ==
    LET built == Build(<<>>, tree)
        res == normalize_recursively(built.h, built.r)
    IN  Deref(res.h, res.r)

IsDictTree(x) == x.t = "dict"
IsListTree(x) == x.t = "list"
Has(d, key) == HasKey(d.c, key)
Get(d, key) == GetItem(d.c, key)
Allowlisted(key) == IsIn(keys_to_promote, key)

\* The root has a sequence-valued pages field.
HasPages(root) ==
    IsDictTree(root) /\ Has(root, K_pages) /\ IsListTree(Get(root, K_pages))

\* A mapping that holds a mapping-valued tags.
HasTags(page) ==
    IsDictTree(page) /\ Has(page, K_tags) /\ IsDictTree(Get(page, K_tags))

\* The state after process returned: N is the normalized argument, P the
\* tree returned.
AfterProcess == op = "process"
\* The tree the call was made with.
Arg == input.c[1]
N == Normalized(Arg)
P == Deref(heap, out)

\* C4: normalization never mutates its argument, and every mapping and
\* sequence of the result is a new object.
C4_InputNeverMutated ==
    input.t = "tree" =>
        /\ Deref(heap, raw) = Arg
        /\ \A id \in Reach(heap, raw) : heap[id] = Build(<<>>, Arg).h[id]
        /\ op \in {"normalize_recursively", "process"} =>
               Reach(heap, out) \cap Reach(heap, raw) = {}

\* process moved a key out of tags and removed the emptied tags.
C4_Witness ==
    /\ AfterProcess
    /\ Arg = OnePageTree(WidthTags)
    /\ Deref(heap, raw) = OnePageTree(WidthTags)
    /\ P = DictVal(<<Entry(K_pages,
                           ListVal(<<DictVal(<<Entry(K_imageWidth, IntVal(100))>>)>>))>>)

\* An optional minus and one or more digits, and nothing else.
IsIntegerString(s) == Unsigned(s) # <<>> /\ AllDigits(Unsigned(s))

\* digits.digits, .digits or digits. after an optional minus
IsDecimalString(s) ==
    LET body == Unsigned(s)
    IN  /\ Cardinality(DotsOf(body)) = 1
        /\ Len(body) >= 2
        /\ \A i \in 1..Len(body) : IsDigit(body[i]) \/ body[i] = "."

\* C5: a string leaf that is an integer becomes that integer, one that is a
\* decimal becomes a float, every other string and every other scalar is
\* returned unchanged.
C5_ScalarCoercion ==
    (op = "normalize_recursively" /\ Arg.t \notin {"dict", "list"}) =>
        IF Arg.t = "str" /\ IsIntegerString(Arg.s)
        THEN out = IntOf(Arg.s)
        ELSE IF Arg.t = "str" /\ IsDecimalString(Arg.s)
             THEN out.t = "float"
             ELSE out = Arg

\* The elements of the root's pages; the keys of a mapping, in order.
PagesOf(root) == Get(root, K_pages).c
KeysOf(d) == [i \in 1..Len(d.c) |-> KeyOf(d.c[i])]

\* C6: every allowlisted name of a page's tags is a field of the page with
\* the value it had in tags and is no key of tags any more; every other key
\* stays in tags with its value.
C6_Promotion ==
    (AfterProcess /\ HasPages(N)) =>
        /\ HasPages(P)
        /\ Len(PagesOf(P)) = Len(PagesOf(N))
        /\ \A i \in 1..Len(PagesOf(N)) :
             LET page == PagesOf(N)[i]
                 promoted == PagesOf(P)[i]
             IN  HasTags(page) =>
                   /\ IsDictTree(promoted)
                   /\ \A j \in 1..Len(Get(page, K_tags).c) :
                        LET key == KeyOf(Get(page, K_tags).c[j])
                            val == ValueOf(Get(page, K_tags).c[j])
                        IN  IF Allowlisted(key)
                            THEN /\ Has(promoted, key)
                                 /\ Get(promoted, key) = val
                                 /\ Has(promoted, K_tags) =>
                                        ~Has(Get(promoted, K_tags), key)
                            ELSE /\ HasTags(promoted)
                                 /\ Has(Get(promoted, K_tags), key)
                                 /\ Get(Get(promoted, K_tags), key) = val
        /\ Arg = T_promotion =>
             P = DictVal(<<Entry(K_pages, ListVal(<<
                     DictVal(<<Entry(K_tags, DictVal(<<Entry(K_fooBar, StrVal(S_x))>>)),
                               Entry(K_imageWidth, IntVal(100))>>)>>))>>)

C6_Witness ==
    /\ AfterProcess
    /\ Arg = T_promotion
    /\ Get(PagesOf(P)[1], K_imageWidth) = IntVal(100)

\* C7: a tags that held only allowlisted keys is removed from its page; a
\* tags with a key that is not allowlisted stays.
C7_EmptiedTagsRemoved ==
    (AfterProcess /\ HasPages(N)) =>
        \A i \in 1..Len(PagesOf(N)) :
            LET page == PagesOf(N)[i]
                promoted == PagesOf(P)[i]
                tags == Get(page, K_tags).c
            IN  HasTags(page) =>
                  IF \A j \in 1..Len(tags) : Allowlisted(KeyOf(tags[j]))
                  THEN ~Has(promoted, K_tags)
                  ELSE HasTags(promoted) /\ Get(promoted, K_tags).c # <<>>

\* Two allowlisted keys were promoted, and tags is gone.
C7_Witness ==
    /\ AfterProcess
    /\ HasPages(N)
    /\ Len(PagesOf(N)) = 1
    /\ HasTags(PagesOf(N)[1])
    /\ Len(Get(PagesOf(N)[1], K_tags).c) = 2
    /\ ~Has(PagesOf(P)[1], K_tags)

\* C8: without a sequence-valued pages in the normalized root, process
\* returns what normalize_recursively returns; with one, everything but the
\* pages that hold a tags mapping is as normalize_recursively returns it,
\* and in such a page every field but tags and the names promoted from it.
C8_OnlyPagesTagsTouched ==
    AfterProcess =>
        IF ~HasPages(N)
        THEN P = N
        ELSE /\ IsDictTree(P)
             /\ KeysOf(P) = KeysOf(N)
             /\ \A i \in 1..Len(N.c) : KeyOf(N.c[i]) # K_pages => P.c[i] = N.c[i]
             /\ IsListTree(Get(P, K_pages))
             /\ Len(PagesOf(P)) = Len(PagesOf(N))
             /\ \A i \in 1..Len(PagesOf(N)) :
                  LET page == PagesOf(N)[i]
                      promoted == PagesOf(P)[i]
                  IN  IF ~HasTags(page)
                      THEN promoted = page
                      ELSE \A j \in 1..Len(page.c) :
                             LET key == KeyOf(page.c[j])
                             IN  (key # K_tags /\ ~Has(Get(page, K_tags), key)) =>
                                   (Has(promoted, key)
                                      /\ Get(promoted, key) = ValueOf(page.c[j]))

\* A promotion happened in the page while the root's tags, and the tags
\* nested deeper in the page, kept their allowlisted key.
C8_Witness ==
    /\ AfterProcess
    /\ HasPages(N)
    /\ Has(N, K_tags)
    /\ Get(P, K_tags) = Normalized(WidthTags)
    /\ Len(PagesOf(N)) >= 1
    /\ HasTags(PagesOf(N)[1])
    /\ Has(PagesOf(N)[1], K_inner)
    /\ Has(Get(PagesOf(N)[1], K_tags), K_imageWidth)
    /\ Has(PagesOf(P)[1], K_imageWidth)
    /\ Get(Get(PagesOf(P)[1], K_inner), K_tags) = Normalized(WidthTags)

(***************************************************************************)
(* Properties of the key paths and the structure template.                 *)
(***************************************************************************)
P_a == <<"a">>
P_a_b == <<"a", ".", "b">>
P_a_b_0 == <<"a", ".", "b", ".", "0">>
P_a_b_1 == <<"a", ".", "b", ".", "1">>
P_a_b_any == <<"a", ".", "b", ".", "[", "]">>
P_c == <<"c">>

\* The paths parent.i of the elements of every sequence of a tree, parent
\* being the path get_key_paths walks the sequence with.
RECURSIVE ElementPaths(_, _)
ElementPaths(data, parent_path) ==
    IF data.t = "dict"
    THEN UNION {LET key == KeyOf(data.c[i])
                IN  ElementPaths(ValueOf(data.c[i]),
                                 IF parent_path # <<>>
                                 THEN parent_path \o <<".">> \o key ELSE key) :
                  i \in 1..Len(data.c)}
    ELSE IF data.t = "list"
         THEN UNION {LET path == parent_path \o <<".">> \o IntToStr(i - 1)
                     IN  {path} \cup ElementPaths(data.c[i], path) :
                       i \in 1..Len(data.c)}
         ELSE {}

\* C9: get_key_paths emits the path p.i of every sequence element, scalar
\* or not, and returns ['a', 'a.b', 'a.b.0', 'a.b.1', 'c'] for
\* {"a": {"b": [1, 2]}, "c": 3}.
C9_IndexPathsEmitted ==
    op = "get_key_paths" =>
        /\ \A path \in ElementPaths(Arg, <<>>) :
               \E i \in 1..Len(out.c) : out.c[i] = StrVal(path)
        /\ Arg = T_abc =>
               out = ListVal(<<StrVal(P_a), StrVal(P_a_b), StrVal(P_a_b_0),
                               StrVal(P_a_b_1), StrVal(P_c)>>)

\* C10 (as stated): for {"a": {"b": [1, 2]}, "c": 3} the key paths written
\* are a, a.b, a.b.0, a.b.1, c and the templates written are a, a.b.[], c.
C10_EndToEnd ==
    (op = "write_key_paths_to_file" /\ Arg = T_abc) =>
        /\ keypath_file = Written(<<P_a, P_a_b, P_a_b_0, P_a_b_1, P_c>>)
        /\ template_file = Written(<<P_a, P_a_b_any, P_c>>)

\* C10 (amended): the key paths written are a, a.b, a.b.0, a.b.1, c and the
\* templates written are a, a.b, a.b.[], c.
C10_EndToEndOfTheCode ==
    (op = "write_key_paths_to_file" /\ Arg = T_abc) =>
        /\ keypath_file = Written(<<P_a, P_a_b, P_a_b_0, P_a_b_1, P_c>>)
        /\ template_file = Written(<<P_a, P_a_b, P_a_b_any, P_c>>)

C10_Witness ==
    /\ op = "write_key_paths_to_file"
    /\ Arg = T_abc
    /\ template_file # <<>>

(***************************************************************************)
(* Properties of the key paths and of their templates.                     *)
(***************************************************************************)
\* The locations of a tree below its root, each as the keys and indexes that
\* lead to it from the root.
RECURSIVE Locations(_)
Locations(tree) ==
    IF tree.t \in {"dict", "list"}
    THEN UNION {LET step == IF tree.t = "dict"
                            THEN KeyOf(tree.c[i])
                            ELSE IntToStr(i - 1)
                    below == IF tree.t = "dict" THEN ValueOf(tree.c[i]) ELSE tree.c[i]
                IN  {<<step>>} \cup {<<step>> \o l : l \in Locations(below)} :
                  i \in 1..Len(tree.c)}
    ELSE {}

\* Walking the tree segment by segment arrives at a location.
RECURSIVE Resolves(_, _)
Resolves(tree, segments) ==
    IF segments = <<>>
    THEN TRUE
    ELSE IF tree.t = "dict"
         THEN Has(tree, Head(segments)) /\ Resolves(Get(tree, Head(segments)), Tail(segments))
         ELSE IF tree.t = "list"
              THEN \E i \in 1..Len(tree.c) :
                       /\ Head(segments) = IntToStr(i - 1)
                       /\ Resolves(tree.c[i], Tail(segments))
              ELSE FALSE

\* C11: whatever the keys are, the paths extract_key_paths emits are as many
\* as the tree has locations (no two locations yield the same path), each of
\* them resolves to a location when walked segment by segment from the root,
\* and the empty path of the root is not among them.
C11_PathsDenoteLocations ==
    op = "extract_key_paths" =>
        /\ Len(out.c) = Cardinality(Locations(Arg))
        /\ \A path \in StrSetOf(out) : Resolves(Arg, split_on(path, "."))
        /\ <<>> \notin StrSetOf(out)

\* The wildcard of the templates.
Wildcard == <<"[", "]">>

HasNonDigit(segment) == \E i \in 1..Len(segment) : ~IsDigit(segment[i])

\* C12: template_key_paths replaces every segment that consists only of
\* digits by the wildcard, at whatever position of the path it stands.
C12_DigitSegmentsCollapsed ==
    op = "template_key_paths" =>
        \A path \in StrSetOf(input) :
            \E template \in StrSetOf(out) :
                LET ps == split_on(path, ".")
                    ts == split_on(template, ".")
                IN  /\ Len(ts) = Len(ps)
                    /\ \A k \in 1..Len(ps) : isdigit(ps[k]) => ts[k] = Wildcard

\* C13: template_key_paths leaves every segment that holds a character other
\* than a digit unchanged, and a template has as many segments as its path.
C13_OtherSegmentsKept ==
    op = "template_key_paths" =>
        \A path \in StrSetOf(input) :
            \E template \in StrSetOf(out) :
                LET ps == split_on(path, ".")
                    ts == split_on(template, ".")
                IN  /\ Len(ts) = Len(ps)
                    /\ \A k \in 1..Len(ps) : HasNonDigit(ps[k]) => ts[k] = ps[k]

\* C14: template generation is idempotent: template_key_paths, and likewise
\* generate_structure_template, applied to the list it returned returns the
\* same sorted, duplicate-free list.
C14_TemplateIdempotent ==
    [][op' \in {"template_key_paths again", "generate_structure_template again"}
         => out' = out]_vars

C14_Witness ==
    /\ op = "template_key_paths again"
    /\ Len(input.c) = 2
    /\ Len(out.c) = 1
    /\ \E i \in 1..Len(out.c[1].s) : out.c[1].s[i] = "["

(***************************************************************************)
(* Properties of the pipeline and of the batch.                            *)
(***************************************************************************)
PipelineStages ==
    {"extract", "raw_dump", "process", "processed_dump", "key_paths", "report"}

\* The place of a stage in the pipeline of a file.
StageRank(stage) ==
    CASE stage = "run_for_file" -> 0
      [] stage \in {"extract", "error_report"} -> 1
      [] stage = "raw_dump" -> 2
      [] stage = "process" -> 3
      [] stage = "processed_dump" -> 4
      [] stage = "key_paths" -> 5
      [] stage = "report" -> 6
      [] OTHER -> 7

Failed(e) == e.outcome \in {"raised", "IOError"}
StageEvents == {j \in 1..Len(events) : events[j].stage # "tally"}
ErrorArtifacts == {"_error.json", "_WORKFLOW_ERROR.txt"}

\* C15: the stages of a file run in the order extract, raw dump, normalize,
\* processed dump, key paths and template, report, a pipeline that reaches
\* the report has run all of them, and no stage of a file runs before the
\* pipeline of the file before it has ended.
C15_StagesInOrder ==
    /\ \A i, j \in StageEvents :
           i < j =>
               \/ events[i].file < events[j].file
               \/ /\ events[i].file = events[j].file
                  /\ StageRank(events[i].stage) < StageRank(events[j].stage)
    /\ \A j \in StageEvents :
           (j > 1 /\ events[j].stage = "run_for_file") =>
               /\ events[j - 1].stage \in {"return", "except"}
               /\ events[j - 1].file = events[j].file - 1
    /\ \A j \in StageEvents :
           events[j].stage = "report" =>
               /\ j >= 7
               /\ [k \in 1..7 |-> events[j - 7 + k].stage]
                      = <<"run_for_file", "extract", "raw_dump", "process",
                          "processed_dump", "key_paths", "report">>
               /\ \A k \in 1..7 : events[j - 7 + k].file = events[j].file

C15_Witness ==
    /\ pc = "exited"
    /\ \E j \in StageEvents : events[j].stage = "report" /\ events[j].file = 2

\* C16 (as stated): when a stage of a file raises, no later stage is run for
\* that file.
C16_FailFastPerFile ==
    \A i, j \in StageEvents :
        (/\ i < j
         /\ events[i].file = events[j].file
         /\ events[i].stage \in PipelineStages
         /\ Failed(events[i]))
            => events[j].stage \notin PipelineStages

\* C16 (amended): an exception of the extraction or of the normalization
\* ends the pipeline of the file; an exception of the raw dump, the processed
\* dump, the key-path generation or the report is caught and the next stage
\* runs; none of them leaves run_for_file as an exception.
C16_FailFastOfTheCode ==
    \A i \in StageEvents :
        (events[i].stage \in PipelineStages /\ Failed(events[i]) /\ i < Len(events)) =>
            /\ events[i + 1].file = events[i].file
            /\ events[i + 1].stage =
                   CASE events[i].stage = "raw_dump" -> "process"
                     [] events[i].stage = "processed_dump" -> "key_paths"
                     [] events[i].stage = "key_paths" -> "report"
                     [] OTHER -> "return"

C16_Witness ==
    \E i, j \in StageEvents :
        /\ i < j
        /\ events[i].file = events[j].file
        /\ events[i].stage = "raw_dump"
        /\ Failed(events[i])
        /\ events[j].stage = "report"

\* C17: once the loop of cli.main has started, the process only ends after
\* the pipeline was run for every file of the batch and the tally was
\* reported, whichever file failed.
C17_BatchNeverAborted ==
    (caller = "main" /\ pc = "exited" /\ events # <<>>) =>
        /\ \A f \in 1..Len(files_to_process) :
               \E j \in StageEvents : events[j].file = f /\ events[j].stage = "run_for_file"
        /\ events[Len(events)].stage = "tally"

\* C18: cli.main exits with a status other than zero if and only if a stage
\* of some file of the batch failed.
C18_ExitStatusReflectsFailures ==
    (caller = "main" /\ pc = "exited" /\ events # <<>>) =>
        (exit_status # 0 <=> \E j \in StageEvents : Failed(events[j]))

\* C19 (as stated): without an extractor the error report <stem>_error.json
\* is written, no stage is run, nothing else is written and run_for_file
\* returns.
C19_NoExtractor ==
    (caller = "run_for_file" /\ pc = "exited" /\ extractor_func = "None") =>
        /\ artifacts = {[of |-> stem(image_file_path), name |-> "_error.json",
                         by |-> idx, whole |-> TRUE]}
        /\ \A j \in StageEvents : events[j].stage \notin PipelineStages
        /\ events[Len(events)].stage = "return"

\* C19 (amended): without an extractor the error report <stem>_error.json is
\* written unless writing it fails with an IOError, which is logged; no
\* stage is run, nothing else is written and run_for_file returns.
C19_NoExtractorOfTheCode ==
    (caller = "run_for_file" /\ pc = "exited" /\ extractor_func = "None") =>
        /\ \A a \in artifacts : a.name = "_error.json" /\ a.of = stem(image_file_path)
        /\ (\E j \in StageEvents : events[j].stage = "error_report" /\ ~Failed(events[j]))
               => artifacts = {[of |-> stem(image_file_path), name |-> "_error.json",
                                by |-> idx, whole |-> TRUE]}
        /\ \E j \in StageEvents : events[j].stage = "error_report"
        /\ \A j \in StageEvents : events[j].stage \notin PipelineStages
        /\ events[Len(events)].stage = "return"

C19_Witness ==
    /\ caller = "run_for_file"
    /\ pc = "exited"
    /\ extractor_func = "None"
    /\ artifacts # {}

\* C20 (as stated): when a stage of a file raises, an error artifact
\* <stem>_error.json or <stem>_WORKFLOW_ERROR.txt is written for the file.
C20_FailureLeavesErrorArtifact ==
    \A j \in StageEvents :
        (events[j].stage \in PipelineStages /\ Failed(events[j]) /\ j < Len(events)) =>
            \E a \in artifacts :
                /\ a.of = stem(files_to_process[events[j].file])
                /\ a.name \in ErrorArtifacts

\* C20 (amended): <stem>_WORKFLOW_ERROR.txt is written when run_for_file
\* itself raises and cli.main catches it; the exceptions of the stages are
\* caught inside run_for_file and no error artifact is written for them.
C20_ErrorArtifactsOfTheCode ==
    [][/\ (pc = "except" /\ pc' = "for") =>
              [of |-> stem(image_file_path), name |-> "_WORKFLOW_ERROR.txt",
               by |-> idx, whole |-> TRUE] \in artifacts'
       /\ (\E a \in artifacts' \ artifacts : a.name \in ErrorArtifacts) =>
              pc \in {"except", "no_extractor"}
       /\ (Len(events') > Len(events)
             /\ events'[Len(events')].stage \in PipelineStages
             /\ Failed(events'[Len(events')])) =>
              {a \in artifacts' : a.name \in ErrorArtifacts}
                  = {a \in artifacts : a.name \in ErrorArtifacts}]_vars

C20_Witness ==
    /\ \E j \in StageEvents : events[j].stage = "extract" /\ Failed(events[j])
    /\ \E j \in StageEvents : events[j].stage = "except" /\ events[j].outcome = "ok"
    /\ \E a \in artifacts : a.name = "_WORKFLOW_ERROR.txt" /\ a.whole
    /\ pc = "exited"

\* The stages that ended for the file run_for_file is in.
StagesDone == {events[j].stage : j \in {k \in 1..Len(events) : events[k].file = idx}}
PipelineEnded == pc = "return" /\ wf_raw_metadata \in ExtractedTrees

\* C21, as stated: whenever the extractor returns a tree, with or without an
\* `error` field, the raw dump, the normalization, the processed dump, the
\* key-path generation and the report are all attempted for that file.
C21_ErrorFieldNeverStops ==
    PipelineEnded =>
        {"raw_dump", "process", "processed_dump", "key_paths", "report"} \subseteq StagesDone

\* C21, of the code: with any tree the raw dump and the normalization are
\* attempted, and the processed dump, the key-path generation and the report
\* are attempted exactly when the normalization did not raise.
C21_ErrorFieldOfTheCode ==
    PipelineEnded =>
        /\ {"raw_dump", "process"} \subseteq StagesDone
        /\ LET normalized ==
                   \E j \in 1..Len(events) :
                       /\ events[j].file = idx
                       /\ events[j].stage = "process"
                       /\ events[j].outcome = "ok"
           IN  \A stage \in {"processed_dump", "key_paths", "report"} :
                   stage \in StagesDone <=> normalized

C21_Witness ==
    /\ PipelineEnded
    /\ wf_raw_metadata = "only error"
    /\ "report" \in StagesDone

\* C22: the sets of artifact paths written for two distinct input files of a
\* batch are disjoint: no step writes a path that another file's pipeline
\* wrote before.
C22_ArtifactPathsDisjoint ==
    [][\A a \in artifacts : \A b \in artifacts' :
           (a.of = b.of /\ a.name = b.name) => a.by = b.by]_vars

\* The step in which cli.main is done with a file: run_for_file returned, or
\* the handler of its exception ran.
FileDone == caller = "main" /\ pc \in {"return", "except"}

\* C23: the tally is append-only: the step that ends a file adds one to
\* exactly one of success_count and failure_count, no other step changes
\* them, neither ever decreases, and when the loop is over and the tally is
\* logged their sum is the number of files found.
C23_TallyAppendOnly ==
    [][/\ success_count' >= success_count
       /\ failure_count' >= failure_count
       /\ (success_count' + failure_count') - (success_count + failure_count)
              = IF FileDone THEN 1 ELSE 0
       /\ pc' = "tally" =>
              success_count' + failure_count' = Len(files_to_process')]_vars

C23_Witness ==
    /\ pc = "exited"
    /\ events # <<>> /\ events[Len(events)].stage = "tally"
    /\ success_count = 1
    /\ failure_count = 1

(***************************************************************************)
(* Properties of the XML parse.                                            *)
(***************************************************************************)
Leaf == input.c[1]

\* A decimal point or an exponent marker.
HasPointOrExponent(val) == \E i \in 1..Len(val) : val[i] \in {".", "e", "E"}

\* All decimal digits after an optional sign.
SignedDigits(val) ==
    LET body == IF val # <<>> /\ IsSign(val[1]) THEN Rest(val) ELSE val
    IN  body # <<>> /\ AllDigits(body)

\* C24: a text leaf that is "true" or "false" in any letter case becomes a
\* boolean; otherwise one with a decimal point or an exponent marker becomes
\* the float it denotes; otherwise one that is all digits after an optional
\* sign becomes the integer it denotes; otherwise it is kept; a leaf whose
\* float or integer parse fails is kept, and no exception escapes.
C24_LeafCoercion ==
    (op = "postprocessor" /\ Leaf.t = "str") =>
        /\ out.t # "ValueError"
        /\ LET val == Leaf.s
           IN  IF LowerStr(val) \in {S_true, S_false}
               THEN out = BoolVal(IF LowerStr(val) = S_true THEN 1 ELSE 0)
               ELSE IF HasPointOrExponent(val)
               THEN out = IF ParseFloat(val) = ValueError THEN Leaf ELSE ParseFloat(val)
               ELSE IF SignedDigits(val)
               THEN out = IntVal(IF val[1] = "-"
                                 THEN 0 - DigitsValue(Rest(val))
                                 ELSE DigitsValue(IF val[1] = "+" THEN Rest(val) ELSE val))
               ELSE out = Leaf

C24_Witness ==
    /\ op = "postprocessor"
    /\ Leaf = StrVal(S_1Eneg2)
    /\ out = FloatVal(0, 1, 2)

\* C25: for a text made of any prefix and a well-formed document, the tree
\* parsed from the first '<' that does not start a comment is returned; no
\* tree is returned only for an empty or whitespace-only text, a text with
\* no such '<', or a text that is not well-formed from that '<' on.
C25_AnyPrefixStripped ==
    op = "_parse_generic_xml" =>
        LET text == input.s
            first == FirstTagStart(text)
            parsed == xmltodict_parse(SubSeq(text, first, Len(text)))
        IN  IF strip(text) = <<>> \/ first = 0 \/ parsed = ValueError
            THEN out = NullVal
            ELSE out = parsed

\* An XML blob the extractor found, and that fails to parse.
Malformed(blob) ==
    /\ _find_xml_description_in_tags(blob) # NullVal
    /\ _parse_generic_xml(blob.s) = NullVal

\* A mapping with `error` and `raw_value` fields.
ErrorRecord(val) == val.t = "dict" /\ Has(val, K_error) /\ Has(val, K_raw_value)

RecordedAt(d, key) == Has(d, key) /\ ErrorRecord(Get(d, key))

\* Every page is in the tree, with the tags read from it.
PagesExtracted(tif, tree) ==
    /\ Has(tree, K_pages)
    /\ Len(PagesOf(tree)) = Len(tif.descriptions)
    /\ \A i \in 1..Len(tif.descriptions) :
           /\ Has(PagesOf(tree)[i], K_tags)
           /\ Has(Get(PagesOf(tree)[i], K_tags), K_ImageWidth)

\* C26: for every XML blob that fails to parse, the image description of a
\* page or the OME metadata of the file, the tree holds a mapping with
\* `error` and `raw_value` at the place of its parse, and every page and tag
\* is extracted all the same.
C26_MalformedBlobRecorded ==
    op = "tiff_extractor.extract" =>
        LET tif == TiffOf(input)
        IN  /\ PagesExtracted(tif, out)
            /\ Malformed(tif.ome_metadata) =>
                   /\ Has(out, K_top_level_tags)
                   /\ RecordedAt(Get(out, K_top_level_tags), K_structured_ome_metadata)
            /\ \A i \in 1..Len(tif.descriptions) :
                   Malformed(tif.descriptions[i]) =>
                       RecordedAt(PagesOf(out)[i], K_structured_image_description)

(***************************************************************************)
(* Properties of the extractor registry.                                   *)
(***************************************************************************)
\* The plugins that loaded as a callable under the extension, in load order.
PluginsFor(file_extension) ==
    SelectSeq(discovered_plugins,
              LAMBDA ep : /\ ep.loads = "callable"
                          /\ StartsWithAt(ep.name, 1, <<".">>)
                          /\ LowerStr(ep.name) = LowerStr(file_extension))

\* C27: for .tiff, .tif, .qptiff and .czi in any letter case get_extractor
\* returns the last plugin that loaded as a callable under that extension,
\* and the built-in extractor when there is none; the registry is built by
\* the first lookup and never changes afterwards.
C27_Registry ==
    [][/\ LowerStr(input'.s) \in DOMAIN _BUILTIN_EXTRACTORS =>
              out'.s = IF PluginsFor(input'.s) = <<>>
                       THEN _BUILTIN_EXTRACTORS[LowerStr(input'.s)]
                       ELSE PluginsFor(input'.s)[Len(PluginsFor(input'.s))].plugin
       /\ registry'.loaded
       /\ registry.loaded => registry' = registry]_vars

(***************************************************************************)
(* More properties of normalize_recursively and process.                   *)
(***************************************************************************)
\* The positions of the entries of a mapping whose key normalizes to key.
Colliding(d, key) == {i \in 1..Len(d.c) : _to_camel_case(KeyOf(d.c[i])) = key}

\* Two keys of the mapping normalize to the same key.
Collides(d) ==
    \E i, j \in 1..Len(d.c) :
        i # j /\ _to_camel_case(KeyOf(d.c[i])) = _to_camel_case(KeyOf(d.c[j]))

\* C28: the mapping normalize_recursively returns for a mapping holds one
\* entry for each key the input keys normalize to, whose value is the
\* normalized value of the last input entry with such a key; it never has
\* more entries than the input, and as many exactly when no two keys collide.
C28_LastCollidingKeyWins ==
    (op = "normalize_recursively" /\ IsDictTree(Arg)) =>
        LET result == Deref(heap, out)
        IN  /\ IsDictTree(result)
            /\ \A i, j \in 1..Len(result.c) :
                   KeyOf(result.c[i]) = KeyOf(result.c[j]) => i = j
            /\ {KeyOf(result.c[i]) : i \in 1..Len(result.c)}
                   = {_to_camel_case(KeyOf(Arg.c[i])) : i \in 1..Len(Arg.c)}
            /\ \A i \in 1..Len(result.c) :
                   LET from == Colliding(Arg, KeyOf(result.c[i]))
                       last == CHOOSE k \in from : \A l \in from : l <= k
                   IN  ValueOf(result.c[i]) = Normalized(ValueOf(Arg.c[last]))
            /\ Len(result.c) <= Len(Arg.c)
            /\ Len(result.c) = Len(Arg.c) <=> ~Collides(Arg)

C28_Witness ==
    /\ op = "normalize_recursively"
    /\ Arg = DictVal(<<Entry(K_Image_Width_kebab, StrVal(S_100)),
                       Entry(K_a, StrVal(S_x)),
                       Entry(K_image_width, StrVal(S_x))>>)
    /\ Deref(heap, out) = DictVal(<<Entry(K_imageWidth, StrVal(S_x)),
                                    Entry(K_a, StrVal(S_x))>>)

\* C29: after process, no mapping of the top-level pages sequence holds a
\* tags equal to the empty mapping, whether tags was emptied by the promotion
\* or was empty before it.
C29_NoEmptyTagsLeft ==
    (AfterProcess /\ HasPages(P)) =>
        \A i \in 1..Len(PagesOf(P)) :
            LET page == PagesOf(P)[i]
            IN  IsDictTree(page) => ~(Has(page, K_tags) /\ Get(page, K_tags) = DictVal(<<>>))

\* A page came with "tags": {} and another field; tags is gone, the field
\* is there.
C29_Witness ==
    /\ AfterProcess
    /\ HasPages(Arg)
    /\ Len(PagesOf(Arg)) >= 1
    /\ PagesOf(Arg)[1] = DictVal(<<Entry(K_imageWidth, StrVal(S_old)),
                                   Entry(K_tags, DictVal(<<>>))>>)
    /\ PagesOf(P)[1] = DictVal(<<Entry(K_imageWidth, StrVal(S_old))>>)

\* C30: process applied to the tree process returned for a mapping returns
\* an equal tree: no key is renamed, no value coerced, nothing promoted and
\* no tags removed the second time.
C30_ProcessIdempotent ==
    [][op' = "process again" => Deref(heap', out') = Deref(heap, out)]_vars

\* The tree of the second call had a key renamed, a value coerced, a name
\* promoted and a tags removed by the first.
C30_Witness ==
    /\ op = "process again"
    /\ Arg = DictVal(<<Entry(K_Pages, ListVal(<<
                 DictVal(<<Entry(K_tags, DictVal(<<Entry(K_imageWidth, StrVal(S_100))>>))>>)>>))>>)
    /\ P = DictVal(<<Entry(K_pages, ListVal(<<
                 DictVal(<<Entry(K_imageWidth, IntVal(100))>>)>>))>>)

====
